---- MODULE Spec2Model ----
(***************************************************************************)
(* Model of the insight-derivation engine of the review analytics          *)
(* pipeline: the rule-based theme tagger (scripts/theme_analysis.py) and   *)
(* the aggregator and driver / pain-point classifier                       *)
(* (scripts/generate_insights.py).                                         *)
(*                                                                         *)
(* Text is modelled as a sequence of symbols.  For the tagger a symbol is  *)
(* one character.  For the persisted "themes" column a symbol is either a  *)
(* whole theme name or one delimiter character: no configured theme name   *)
(* contains "|", "," or a regular-expression metacharacter, and none is a  *)
(* substring of another, so matching on names agrees with matching on      *)
(* characters.                                                             *)
(***************************************************************************)
EXTENDS Integers, Sequences, FiniteSets, TLC

VARIABLES
    pc,               \* the step the run has reached
    tokens,           \* tagger: the review's token list
    theme_rules,      \* tagger: the rule table, a list of (theme, keywords)
    matched,          \* tagger: the list assign_themes returned
    themes_str,       \* tagger: the value written to the "themes" column
    df,               \* insights: the review frame, a list of rows
    bank_names,       \* insights: df['bank'].unique()
    theme_sentiment,  \* insights: bank -> list of theme statistics
    drivers,          \* insights: bank -> list of driver entries
    pain_points,      \* insights: bank -> list of pain-point entries
    comparison,       \* insights: bank -> the metrics of compare_banks
    recommendations,  \* insights: bank -> list of recommendations
    theme_data,       \* insights: the file at THEME_DATA_PATH
    outputs,          \* insights: the files written, name -> content
    pipeline,         \* run_pipeline.main: flags, data files, steps run, log
    scraper           \* fetch_reviews_for_bank: locals and the calls made

vars == <<pc, tokens, theme_rules, matched, themes_str,
          df, bank_names, theme_sentiment, drivers, pain_points,
          comparison, recommendations, theme_data, outputs,
          pipeline, scraper>>

(***************************************************************************)
(* Bounds of the model.                                                    *)
(***************************************************************************)
MaxTokens == 2
MaxKeywords == 2
MaxReviews == 2
MaxThemes == 6

\* Lemmatised alphabetic tokens a review may consist of.
TokenPool == { <<"a">>, <<"b">>, <<"a", "b">> }

\* Lower-cased keywords and phrases a rule table may hold.
KeywordPool == { <<"a">>, <<"b">>, <<"a", " ", "b">>, <<"b", " ", "a">> }

\* The rule table's themes, in the order of the configuration dictionary.
RuleThemes == << "Access & Login", "Performance & Reliability" >>

SeqsUpTo(S, n) == UNION { [1..k -> S] : k \in 0..n }

Range(s) == { s[i] : i \in 1..Len(s) }

(***************************************************************************)
(* Generic text helpers.                                                   *)
(***************************************************************************)
\* Python's `sep.join(parts)`.
RECURSIVE Join(_, _)
Join(parts, sep) ==
    IF Len(parts) = 0 THEN << >>
    ELSE IF Len(parts) = 1 THEN parts[1]
    ELSE parts[1] \o sep \o Join(Tail(parts), sep)

\* Python's `needle in haystack` for strings.
IsSubstring(needle, haystack) ==
    \E i \in 0..(Len(haystack) - Len(needle)) :
        SubSeq(haystack, i + 1, i + Len(needle)) = needle

\* Python's `text.split(sep)` for a one-symbol separator.
RECURSIVE SplitFrom(_, _, _, _)
SplitFrom(text, sep, i, cur) ==
    IF i > Len(text) THEN << cur >>
    ELSE IF text[i] = sep THEN << cur >> \o SplitFrom(text, sep, i + 1, << >>)
    ELSE SplitFrom(text, sep, i + 1, Append(cur, text[i]))

Split(text, sep) == SplitFrom(text, sep, 1, << >>)

(***************************************************************************)
(* Theme tagger: theme_analysis.assign_themes and the persistence of its   *)
(* result by theme_analysis.main.                                          *)
(***************************************************************************)
GENERAL_FEEDBACK == "General Feedback"

\* Every keyword searched for in the joined text.
KeywordMatchesSubstringOnly(keyword, token_set, joined_text) ==
    IsSubstring(keyword, joined_text)

\* The two conditions of the keyword loop, assign_themes lines 157 and 160.

KeywordMatches(keyword, token_set, joined_text) ==
    \/ (" " \in Range(keyword) /\ IsSubstring(keyword, joined_text))
    \/ keyword \in token_set

\* The inner `for keyword in keywords` loop with its `break`.
RECURSIVE ScanKeywords(_, _, _, _, _, _)
ScanKeywords(theme, keywords, i, token_set, joined_text, acc) ==
    IF i > Len(keywords) THEN acc
    ELSE IF KeywordMatches(keywords[i], token_set, joined_text)
         THEN Append(acc, theme)
         ELSE ScanKeywords(theme, keywords, i + 1, token_set, joined_text, acc)

\* The outer `for theme, keywords in theme_rules.items()` loop.
RECURSIVE ScanThemes(_, _, _, _, _)
ScanThemes(rules, t, token_set, joined_text, acc) ==
    IF t > Len(rules) THEN acc
    ELSE ScanThemes(rules, t + 1, token_set, joined_text,
                    ScanKeywords(rules[t].theme, rules[t].keywords, 1,
                                 token_set, joined_text, acc))

\* The sentinel left out.
assign_themes_no_fallback(toks, rules) ==
    ScanThemes(rules, 1, Range(toks), Join(toks, << " " >>), << >>)

\* The sentinel appended whatever was matched.
assign_themes_always_fallback(toks, rules) ==
    Append(ScanThemes(rules, 1, Range(toks), Join(toks, << " " >>), << >>),
           GENERAL_FEEDBACK)

assign_themes(toks, rules) ==
    LET token_set   == Range(toks)
        joined_text == Join(toks, << " " >>)
        found       == ScanThemes(rules, 1, token_set, joined_text, << >>)
    IN  IF found = << >> THEN << GENERAL_FEEDBACK >> ELSE found

\* Alphabetical order of the theme names, as Python's sorted() orders them.
ThemeSortOrder ==
    << "Access & Login", "Customer Support", "Features & Functionality",
       "General Feedback", "Performance & Reliability",
       "Transactions & Payments", "User Experience" >>

\* sorted(set(themes)): the names of ThemeSortOrder that occur in the list.
SortedSet(themes) ==
    SelectSeq(ThemeSortOrder, LAMBDA n : n \in Range(themes))

\* theme_analysis.main line 225: "|".join(sorted(set(themes))).
PersistThemes(themes) == Join([i \in 1..Len(SortedSet(themes)) |-> << SortedSet(themes)[i] >>], << "|" >>)

(***************************************************************************)
(* Numbers.  A percentage is kept as the exact fraction the float          *)
(* expression count / total * 100 approximates; an average rating is kept  *)
(* in hundredths, a displayed percentage in tenths.                        *)
(***************************************************************************)
\* Round n/d to the nearest integer, ties to even (Python's and numpy's round).
RoundHalfEven(n, d) ==
    LET q == n \div d
        r == n % d
    IN  IF 2 * r < d THEN q
        ELSE IF 2 * r > d THEN q + 1
        ELSE IF q % 2 = 0 THEN q ELSE q + 1

\* The operands of the division exchanged.
PctSwapped(count, total) ==
    IF count > 0 THEN [num |-> 100 * total, den |-> count]
    ELSE [num |-> 0, den |-> 1]

\* (count / total * 100) if total > 0 else 0
Pct(count, total) ==
    IF total > 0 THEN [num |-> 100 * count, den |-> total]
    ELSE [num |-> 0, den |-> 1]

\* pct >= k, for an integer k.
PctGE(pct, k) == pct.num >= k * pct.den

\* round(pct, 1), in tenths of a percent.
Round1(pct) == RoundHalfEven(10 * pct.num, pct.den)

\* A missing cell of the rating column, and the mean of no number, both NaN
\* in pandas: comparisons with it are false and mean() and value_counts()
\* skip it.  The value stands outside the range of ratings and of averages.
NaN == 0 - 1

\* A missing cell of the sentiment_label column: equal to no label.
NoLabel == "nan"

RECURSIVE SumRatings(_)
SumRatings(rows) ==
    IF rows = << >> THEN 0
    ELSE (IF rows[1].rating = NaN THEN 0 ELSE rows[1].rating) + SumRatings(Tail(rows))

\* round(theme_reviews['rating'].mean(), 2), in hundredths of a star.
AvgRating(rows) ==
    LET rated == SelectSeq(rows, LAMBDA row : row.rating # NaN)
    IN  IF rated = << >> THEN NaN
        ELSE RoundHalfEven(100 * SumRatings(rated), Len(rated))

(***************************************************************************)
(* Aggregator: generate_insights.analyze_theme_sentiment.                  *)
(***************************************************************************)
\* df['bank'].unique(): the banks in order of first appearance.
Unique(s) ==
    LET firsts == { i \in 1..Len(s) : \A j \in 1..(i - 1) : s[j] # s[i] }
    IN  [k \in 1..Cardinality(firsts) |->
            s[CHOOSE i \in firsts : Cardinality({ j \in firsts : j < i }) = k - 1]]

BankNamesOf(frame) == Unique([i \in 1..Len(frame) |-> frame[i].bank])

\* df[df['bank'] == bank_name]
BankFrame(frame, bank_name) == SelectSeq(frame, LAMBDA row : row.bank = bank_name)

\* str.strip(): leading and trailing blanks removed.
RECURSIVE Strip(_)
Strip(text) ==
    IF text = << >> THEN text
    ELSE IF text[1] = " " THEN Strip(Tail(text))
    ELSE IF text[Len(text)] = " " THEN Strip(SubSeq(text, 1, Len(text) - 1))
    ELSE text

\* The delimiter analyze_theme_sentiment and compare_banks split the column on.
THEME_DELIMITER == ","

\* [t.strip() for t in str(themes_str).split(',')]
ParseThemesOn(themes_text, sep) ==
    LET parts == Split(themes_text, sep)
    IN  [i \in 1..Len(parts) |-> Strip(parts[i])]

ParseThemes(themes_text) == ParseThemesOn(themes_text, THEME_DELIMITER)

\* all_themes: the set built by lines 57-61.
AllThemes(bank_df) ==
    UNION { Range(ParseThemes(bank_df[i].themes)) : i \in 1..Len(bank_df) }

\* Series.str.contains(theme, case=False, na=False): the theme is used as a
\* regular expression, in which "|" separates alternatives, and is searched
\* for anywhere in the cell.
StrContains(cell, pattern) ==
    \E alt \in Range(Split(pattern, "|")) : IsSubstring(alt, cell)

WithLabel(rows, label) == SelectSeq(rows, LAMBDA row : row.sentiment_label = label)

Head2(s) == SubSeq(s, 1, IF Len(s) < 2 THEN Len(s) ELSE 2)

Reviews(rows) == [i \in 1..Len(rows) |-> rows[i].review]

\* The record built by lines 69-86 for one theme.
ThemeStats(theme, theme_reviews) ==
    LET total    == Len(theme_reviews)
        positive == Len(WithLabel(theme_reviews, "positive"))
        negative == Len(WithLabel(theme_reviews, "negative"))
    IN  [ theme          |-> theme,
          total_reviews  |-> total,
          positive_count |-> positive,
          negative_count |-> negative,
          positive_pct   |-> Pct(positive, total),
          negative_pct   |-> Pct(negative, total),
          avg_rating     |-> AvgRating(theme_reviews),
          sample_reviews |->
              [ positive |-> Head2(Reviews(WithLabel(theme_reviews, "positive"))),
                negative |-> Head2(Reviews(WithLabel(theme_reviews, "negative"))) ] ]

\* The `for theme in all_themes` loop, for one enumeration order of the set:
\* bank_results as the list of its values in insertion order.
RECURSIVE BankResults(_, _)
BankResults(bank_df, theme_order) ==
    IF theme_order = << >> THEN << >>
    ELSE LET theme         == theme_order[1]
             theme_reviews == SelectSeq(bank_df,
                                  LAMBDA row : StrContains(row.themes, theme))
             rest          == BankResults(bank_df, Tail(theme_order))
         IN  IF Len(theme_reviews) > 0
             THEN << ThemeStats(theme, theme_reviews) >> \o rest
             ELSE rest

\* The orders in which a set may be enumerated.
Orderings(S) ==
    { s \in [1..Cardinality(S) -> S] : \A i, j \in 1..Cardinality(S) : s[i] = s[j] => i = j }

\* The results analyze_theme_sentiment may return: one per choice of the
\* enumeration order of each bank's all_themes set.
analyze_theme_sentiment(frame) ==
    LET banks == Range(BankNamesOf(frame))
        all   == UNION { Orderings(AllThemes(BankFrame(frame, b))) : b \in banks }
    IN  { [b \in banks |-> BankResults(BankFrame(frame, b), order[b])] :
            order \in { o \in [banks -> all] :
                          \A b \in banks : o[b] \in Orderings(AllThemes(BankFrame(frame, b))) } }

(***************************************************************************)
(* Classifier: generate_insights.identify_drivers and                      *)
(* identify_pain_points.                                                   *)
(***************************************************************************)
DRIVER_MIN_POSITIVE_PCT == 60
DRIVER_MIN_AVG_RATING == 400
DRIVER_MIN_REVIEWS == 20
PAIN_MIN_NEGATIVE_PCT == 30
PAIN_MAX_AVG_RATING == 300
PAIN_MIN_REVIEWS == 10
TOP_K == 5

\* The strict bounds the docstring of identify_drivers states.
IsDriverStrict(stats) ==
    /\ stats.positive_pct.num > DRIVER_MIN_POSITIVE_PCT * stats.positive_pct.den
    /\ stats.avg_rating > DRIVER_MIN_AVG_RATING
    /\ stats.total_reviews > DRIVER_MIN_REVIEWS

\* The condition of lines 109-111.
IsDriver(stats) ==
    /\ PctGE(stats.positive_pct, DRIVER_MIN_POSITIVE_PCT)
    /\ stats.avg_rating >= DRIVER_MIN_AVG_RATING
    /\ stats.total_reviews >= DRIVER_MIN_REVIEWS

\* The rating bound taken inclusive.
IsPainPointInclusive(stats) ==
    /\ PctGE(stats.negative_pct, PAIN_MIN_NEGATIVE_PCT)
    /\ stats.avg_rating <= PAIN_MAX_AVG_RATING
    /\ stats.total_reviews >= PAIN_MIN_REVIEWS

\* The rating bound left out.
IsPainPointAnyRating(stats) ==
    /\ PctGE(stats.negative_pct, PAIN_MIN_NEGATIVE_PCT)
    /\ stats.total_reviews >= PAIN_MIN_REVIEWS

\* The condition of lines 144-146.
IsPainPoint(stats) ==
    /\ PctGE(stats.negative_pct, PAIN_MIN_NEGATIVE_PCT)
    /\ stats.avg_rating # NaN
    /\ stats.avg_rating < PAIN_MAX_AVG_RATING
    /\ stats.total_reviews >= PAIN_MIN_REVIEWS

\* The entry appended by lines 113-119.
DriverEntry(stats) ==
    [ theme        |-> stats.theme,
      positive_pct |-> Round1(stats.positive_pct),
      avg_rating   |-> stats.avg_rating,
      review_count |-> stats.total_reviews,
      evidence     |-> Head2(stats.sample_reviews.positive) ]

\* The entry appended by lines 148-154.
PainPointEntry(stats) ==
    [ theme        |-> stats.theme,
      negative_pct |-> Round1(stats.negative_pct),
      avg_rating   |-> stats.avg_rating,
      review_count |-> stats.total_reviews,
      evidence     |-> Head2(stats.sample_reviews.negative) ]

\* list.sort(key=lambda x: x[field], reverse=True): a stable sort, so entries
\* with equal keys keep the order in which they were appended.
InsertDesc(sorted, x, field) ==
    LET before == { i \in 1..Len(sorted) : sorted[i][field] >= x[field] }
        k      == Cardinality(before)
    IN  SubSeq(sorted, 1, k) \o << x >> \o SubSeq(sorted, k + 1, Len(sorted))

RECURSIVE SortDescFrom(_, _, _, _)
SortDescFrom(list, field, i, acc) ==
    IF i > Len(list) THEN acc
    ELSE SortDescFrom(list, field, i + 1, InsertDesc(acc, list[i], field))

\* The sort left out.
SortDescUnsorted(list, field) == list

SortDesc(list, field) == SortDescFrom(list, field, 1, << >>)

\* list[:n]
Take(list, n) == SubSeq(list, 1, IF Len(list) < n THEN Len(list) ELSE n)

\* theme_sentiment.get(bank_name, {})
ThemesOfBank(sentiment, bank_name) ==
    IF bank_name \in DOMAIN sentiment THEN sentiment[bank_name] ELSE << >>

identify_drivers(banks, sentiment) ==
    [ bank_name \in Range(banks) |->
        LET bank_themes  == ThemesOfBank(sentiment, bank_name)
            qualifying   == SelectSeq(bank_themes, IsDriver)
            bank_drivers == [i \in 1..Len(qualifying) |-> DriverEntry(qualifying[i])]
        IN  Take(SortDesc(bank_drivers, "positive_pct"), TOP_K) ]

identify_pain_points(banks, sentiment) ==
    [ bank_name \in Range(banks) |->
        LET bank_themes      == ThemesOfBank(sentiment, bank_name)
            qualifying       == SelectSeq(bank_themes, IsPainPoint)
            bank_pain_points == [i \in 1..Len(qualifying) |-> PainPointEntry(qualifying[i])]
        IN  Take(SortDesc(bank_pain_points, "negative_pct"), TOP_K) ]

(***************************************************************************)
(* Bank comparison: generate_insights.compare_banks.                       *)
(***************************************************************************)
\* The number of entries of a list equal to x.
Count(list, x) == Cardinality({ i \in 1..Len(list) : list[i] = x })

\* all_themes of compare_banks: the labels of every row, in row order.
RECURSIVE MentionedThemes(_)
MentionedThemes(bank_df) ==
    IF bank_df = << >> THEN << >>
    ELSE ParseThemes(bank_df[1].themes) \o MentionedThemes(Tail(bank_df))

\* pd.Series(all_themes).value_counts(): one entry per distinct value with
\* its count, counts non-increasing; the order among equal counts is not
\* fixed by the library, so every such order is a possible result.
ValueCounts(list) ==
    { [i \in 1..Len(order) |-> [theme |-> order[i], count |-> Count(list, order[i])]] :
        order \in { o \in Orderings(Range(list)) :
                      \A i, j \in 1..Len(o) :
                          i < j => Count(list, o[i]) >= Count(list, o[j]) } }

\* bank_df['rating'].value_counts().to_dict()
RatingDistribution(bank_df) ==
    LET ratings == [i \in 1..Len(bank_df) |-> bank_df[i].rating]
    IN  [r \in Range(ratings) \ { NaN } |-> Count(ratings, r)]

\* The record of lines 187-194 for one bank, given the top themes.
BankMetrics(bank_df, top) ==
    [ total_reviews       |-> Len(bank_df),
      avg_rating          |-> AvgRating(bank_df),
      positive_pct        |-> Round1(Pct(Len(WithLabel(bank_df, "positive")), Len(bank_df))),
      negative_pct        |-> Round1(Pct(Len(WithLabel(bank_df, "negative")), Len(bank_df))),
      rating_distribution |-> RatingDistribution(bank_df),
      top_themes          |-> top ]

\* The results compare_banks may return.
compare_banks(frame) ==
    LET banks == Range(BankNamesOf(frame))
        tops(b) == { Take(vc, TOP_K) : vc \in ValueCounts(MentionedThemes(BankFrame(frame, b))) }
        all   == UNION { tops(b) : b \in banks }
    IN  { [b \in banks |-> BankMetrics(BankFrame(frame, b), top[b])] :
            top \in { t \in [banks -> all] : \A b \in banks : t[b] \in tops(b) } }

(***************************************************************************)
(* Recommendations: generate_insights.generate_recommendations.            *)
(***************************************************************************)
TOP_PAIN_POINTS == 3
TOP_PEER_DRIVERS == 2
MAX_RECOMMENDATIONS == 5
SIGNIFICANT_GAP == 30

\* str() of a float that has one decimal, given in tenths: 417 is "41.7".
FormatTenths(t) == ToString(t \div 10) \o "." \o ToString(t % 10)

\* str() of a float that has at most two decimals, given in hundredths:
\* the shortest text that reads back as the float, 290 is "2.9".
FormatHundredths(h) ==
    IF h % 10 = 0 THEN FormatTenths(h \div 10)
    ELSE ToString(h \div 100) \o "." \o ToString((h % 100) \div 10) \o ToString(h % 10)

\* The ratings x, in hundredths, for which the double x + 0.3 is less than
\* the double nearest to the decimal x + 0.30 (IEEE 754 binary64 addition).
SumRoundsBelow ==
    { 188, 190, 192, 194, 201, 203, 205, 207, 209, 211, 213, 215, 217, 219,
      226, 228, 230, 232, 234, 236, 238, 240, 242, 244, 251, 253, 255, 257,
      259, 261, 263, 265, 267, 269, 276, 278, 280, 282, 284, 286, 288, 290,
      292, 294, 301, 303, 305, 307, 309, 311, 313, 315, 317, 319, 326, 328,
      330, 332, 334, 336, 338, 340, 342, 344, 351, 353, 355, 357, 359, 361,
      363, 365, 367, 369, 402, 406, 410, 414, 418, 427, 431, 435, 439, 443,
      452, 456, 460, 464, 468 }

\* The gap taken in either direction.
IsSignificantGapEitherWay(other_rating, bank_avg_rating) ==
    \/ other_rating > bank_avg_rating + SIGNIFICANT_GAP
    \/ bank_avg_rating > other_rating + SIGNIFICANT_GAP

\* other_rating > bank_avg_rating + 0.3, line 305, on doubles.
IsSignificantGap(other_rating, bank_avg_rating) ==
    \/ other_rating > bank_avg_rating + SIGNIFICANT_GAP
    \/ /\ other_rating = bank_avg_rating + SIGNIFICANT_GAP
       /\ bank_avg_rating \in SumRoundsBelow

\* The rationale citing the number of reviews as well.
MentionRationaleWithCount(pain_point) ==
    << FormatTenths(pain_point.negative_pct), "% of ",
       ToString(pain_point.review_count), " reviews mention " >>
        \o pain_point.theme \o << " issues" >>

\* f"{pain_point['negative_pct']}% of reviews mention {theme} issues"
MentionRationale(pain_point) ==
    << FormatTenths(pain_point.negative_pct), "% of reviews mention " >>
        \o pain_point.theme \o << " issues" >>

\* The else branch, lines 285-296: the generic template.
PainPointRecommendationGeneric(pain_point) ==
    [ priority       |-> "MEDIUM",
      category       |-> "General",
      recommendation |-> << "Address " >> \o pain_point.theme \o << " concerns" >>,
      rationale      |-> MentionRationale(pain_point),
      actions        |-> << <<"Analyze specific complaints in detail">>,
                            <<"Prioritize most common issues">>,
                            <<"Develop targeted solutions">> >> ]

\* Every pain point given the generic template, whatever its theme.
PainPointRecommendationAnyTheme(pain_point) ==
    PainPointRecommendationGeneric(pain_point)

\* The if / elif chain of lines 220-296.
PainPointRecommendation(pain_point) ==
    LET theme == pain_point.theme
    IN  IF theme = << "Performance & Reliability" >> THEN
            [ priority       |-> "HIGH",
              category       |-> "Technical",
              recommendation |-> << "Improve app stability and performance" >>,
              rationale      |-> MentionRationale(pain_point)
                                     \o << " with avg rating ",
                                           FormatHundredths(pain_point.avg_rating) >>,
              actions        |-> << <<"Conduct comprehensive performance testing">>,
                                    <<"Optimize app startup time and response speed">>,
                                    <<"Fix reported crashes and freezing issues">>,
                                    <<"Implement better error handling and recovery">> >> ]
        ELSE IF theme = << "Access & Login" >> THEN
            [ priority       |-> "HIGH",
              category       |-> "Security & UX",
              recommendation |-> << "Streamline login and authentication process" >>,
              rationale      |-> MentionRationale(pain_point),
              actions        |-> << <<"Simplify login flow (reduce steps)">>,
                                    <<"Improve biometric authentication reliability">>,
                                    <<"Fix OTP delivery issues">>,
                                    <<"Add \"Remember me\" option for trusted devices">> >> ]
        ELSE IF theme = << "Transactions & Payments" >> THEN
            [ priority       |-> "HIGH",
              category       |-> "Core Functionality",
              recommendation |-> << "Enhance transaction reliability and user experience" >>,
              rationale      |-> MentionRationale(pain_point),
              actions        |-> << <<"Improve transaction success rate">>,
                                    <<"Add transaction status notifications">>,
                                    <<"Simplify payment flow">>,
                                    <<"Add transaction history search and filters">> >> ]
        ELSE IF theme = << "Customer Support" >> THEN
            [ priority       |-> "MEDIUM",
              category       |-> "Service",
              recommendation |-> << "Enhance customer support channels" >>,
              rationale      |-> MentionRationale(pain_point),
              actions        |-> << <<"Add in-app chat support">>,
                                    <<"Reduce response time">>,
                                    <<"Improve support agent training">>,
                                    <<"Add FAQ section within app">> >> ]
        ELSE IF theme = << "User Experience" >> THEN
            [ priority       |-> "MEDIUM",
              category       |-> "Design",
              recommendation |-> << "Improve app interface and navigation" >>,
              rationale      |-> MentionRationale(pain_point),
              actions        |-> << <<"Redesign navigation for better intuitiveness">>,
                                    <<"Improve visual design consistency">>,
                                    <<"Add user customization options">>,
                                    <<"Conduct UX research and user testing">> >> ]
        ELSE PainPointRecommendationGeneric(pain_point)

\* The loop of lines 217-298 over the pain points it is given.
PainPointRecommendations(bank_pain_points) ==
    [i \in 1..Len(bank_pain_points) |-> PainPointRecommendation(bank_pain_points[i])]

\* A text is a list of symbols; an action list is a list of texts.
\* The entry appended by lines 309-319.
CompetitiveRecommendation(other_bank, driver) ==
    [ priority       |-> "MEDIUM",
      category       |-> "Competitive",
      recommendation |-> << "Learn from ", other_bank, ": Improve " >> \o driver.theme,
      rationale      |-> << other_bank, " has ", FormatTenths(driver.positive_pct),
                            "% positive sentiment for " >> \o driver.theme,
      actions        |-> << << "Study ", other_bank, "'s approach to " >> \o driver.theme,
                            <<"Adapt best practices to your app">>,
                            <<"Conduct user research on this aspect">> >> ]

\* [r.get('theme', '') for r in bank_recs], line 308.
RecThemes(bank_recs) ==
    { IF "theme" \in DOMAIN bank_recs[i] THEN bank_recs[i].theme ELSE << >> :
        i \in 1..Len(bank_recs) }

\* The loop of lines 307-319 over the drivers of one peer.
RECURSIVE AppendPeerDrivers(_, _, _)
AppendPeerDrivers(bank_recs, other_bank, other_drivers) ==
    IF other_drivers = << >> THEN bank_recs
    ELSE AppendPeerDrivers(
             IF other_drivers[1].theme \notin RecThemes(bank_recs)
             THEN Append(bank_recs, CompetitiveRecommendation(other_bank, other_drivers[1]))
             ELSE bank_recs,
             other_bank, Tail(other_drivers))

\* drivers.get(other_bank, []) and pain_points.get(bank_name, [])
EntriesOfBank(entries, bank_name) ==
    IF bank_name \in DOMAIN entries THEN entries[bank_name] ELSE << >>

\* The peers visited from the last bank to the first.
RECURSIVE AppendPeersBackwards(_, _, _, _, _, _)
AppendPeersBackwards(bank_recs, bank_name, banks, k, all_drivers, metrics) ==
    IF k > Len(banks) THEN bank_recs
    ELSE LET other_bank == banks[Len(banks) + 1 - k]
         IN  AppendPeersBackwards(
                 IF /\ other_bank # bank_name
                    /\ IsSignificantGap(metrics[other_bank].avg_rating,
                                        metrics[bank_name].avg_rating)
                 THEN AppendPeerDrivers(bank_recs, other_bank,
                          Take(EntriesOfBank(all_drivers, other_bank), TOP_PEER_DRIVERS))
                 ELSE bank_recs,
                 bank_name, banks, k + 1, all_drivers, metrics)

\* The loop of lines 302-319 over the banks from position k on.
RECURSIVE AppendPeers(_, _, _, _, _, _)
AppendPeers(bank_recs, bank_name, banks, k, all_drivers, metrics) ==
    IF k > Len(banks) THEN bank_recs
    ELSE LET other_bank == banks[k]
         IN  AppendPeers(
                 IF /\ other_bank # bank_name
                    /\ IsSignificantGap(metrics[other_bank].avg_rating,
                                        metrics[bank_name].avg_rating)
                 THEN AppendPeerDrivers(bank_recs, other_bank,
                          Take(EntriesOfBank(all_drivers, other_bank), TOP_PEER_DRIVERS))
                 ELSE bank_recs,
                 bank_name, banks, k + 1, all_drivers, metrics)

\* Every pain point of the bank given a recommendation.
BankRecsAllPainPoints(bank_name, banks, all_drivers, all_pain_points, metrics) ==
    AppendPeers(
        PainPointRecommendations(EntriesOfBank(all_pain_points, bank_name)),
        bank_name, banks, 1, all_drivers, metrics)

\* bank_recs of one bank when line 321 is reached.
BankRecs(bank_name, banks, all_drivers, all_pain_points, metrics) ==
    AppendPeers(
        PainPointRecommendations(
            Take(EntriesOfBank(all_pain_points, bank_name), TOP_PAIN_POINTS)),
        bank_name, banks, 1, all_drivers, metrics)

\* The cut to five entries left out.
generate_recommendations_uncut(banks, all_drivers, all_pain_points, metrics) ==
    [ bank_name \in Range(banks) |->
        BankRecs(bank_name, banks, all_drivers, all_pain_points, metrics) ]

\* `banks` is list(comparison.keys()): the banks in the order compare_banks
\* inserted them, which is that of df['bank'].unique().
\* Only the banks that have a recommendation get a key.
generate_recommendations_nonempty(banks, all_drivers, all_pain_points, metrics) ==
    LET all == generate_recommendations_uncut(banks, all_drivers, all_pain_points, metrics)
    IN  [ bank_name \in { b \in Range(banks) : all[b] # << >> } |->
            Take(all[bank_name], MAX_RECOMMENDATIONS) ]

generate_recommendations(banks, all_drivers, all_pain_points, metrics) ==
    [ bank_name \in Range(banks) |->
        Take(BankRecs(bank_name, banks, all_drivers, all_pain_points, metrics),
             MAX_RECOMMENDATIONS) ]

(***************************************************************************)
(* Inputs.                                                                 *)
(***************************************************************************)
BankPool == << "Dashen Bank", "Bank of Abyssinia" >>

SentimentLabels == { "positive", "neutral", "negative" }

RatingPool == { 2, 5 }

\* A rule table with one keyword per theme, for tagging the rows of a frame.
FrameRules ==
    << [theme |-> RuleThemes[1], keywords |-> << <<"a">> >>],
       [theme |-> RuleThemes[2], keywords |-> << <<"b">> >>] >>

\* The theme lists the tagger gives the reviews of a frame.
TagOutcomes ==
    { assign_themes(toks, FrameRules) : toks \in SeqsUpTo(TokenPool, MaxTokens) }

\* A row of reviews_with_themes.csv; `tags` keeps the list the tagger
\* returned before theme_analysis.main joined it into `themes`.
Row(i, bank, rating, label, tags) ==
    [ bank            |-> bank,
      review          |-> i,
      rating          |-> rating,
      sentiment_label |-> label,
      tags            |-> tags,
      themes          |-> PersistThemes(tags) ]

\* The frame whose i-th row has bank b[i], rating r[i], label l[i], tags t[i].
Frame(n, b, r, l, t) == [i \in 1..n |-> Row(i, b[i], r[i], l[i], t[i])]

RuleTables ==
    { [t \in 1..Len(RuleThemes) |-> [theme |-> RuleThemes[t], keywords |-> k[t]]] :
        k \in [1..Len(RuleThemes) -> SeqsUpTo(KeywordPool, MaxKeywords)] }

\* A theme statistic as analyze_theme_sentiment builds it, from its counts:
\* shape = <<total, positive, negative, sum of ratings>>.
MkStat(theme, shape) ==
    [ theme          |-> theme,
      total_reviews  |-> shape[1],
      positive_count |-> shape[2],
      negative_count |-> shape[3],
      positive_pct   |-> Pct(shape[2], shape[1]),
      negative_pct   |-> Pct(shape[3], shape[1]),
      avg_rating     |-> RoundHalfEven(100 * shape[4], shape[1]),
      sample_reviews |->
          [ positive |-> [i \in 1..(IF shape[2] < 2 THEN shape[2] ELSE 2) |-> i],
            negative |-> [i \in 1..(IF shape[3] < 2 THEN shape[3] ELSE 2) |-> shape[2] + i] ] ]

\* Statistics on and next to the bounds of the two predicates.
BoundaryShapes ==
    { <<20, 12, 6, 80>>,         \* 60.0 %, 4.00, 20 reviews
      <<19, 12, 6, 76>>,         \* 19 reviews
      <<20, 11, 6, 80>>,         \* 55.0 % positive
      <<20, 12, 6, 79>>,         \* 3.95
      <<400, 240, 120, 1599>>,   \* mean 3.9975, rounded 4.00
      <<10, 3, 3, 29>>,          \* 30.0 % negative, 2.90, 10 reviews
      <<10, 3, 3, 30>>,          \* 3.00
      <<9, 3, 3, 26>>,           \* 9 reviews
      <<10, 3, 2, 29>>,          \* 20.0 % negative
      <<400, 120, 120, 1199>> }  \* mean 2.9975, rounded 3.00

\* Qualifying statistics; the first two of each kind differ in their
\* percentage (82.142... and 82.051...) and agree in its rounding (82.1).
RankShapes ==
    { <<28, 23, 2, 126>>, <<39, 32, 3, 176>>, <<20, 18, 1, 90>>,
      <<28, 2, 23, 56>>,  <<39, 3, 32, 79>>,  <<10, 1, 9, 20>> }

ThemeKey(i) == << ThemeSortOrder[i] >>

\* The statistics of one bank: theme i of the bank has shape f[i].
StatSeq(f) == [i \in 1..Len(f) |-> MkStat(ThemeKey(i), f[i])]

(***************************************************************************)
(* The tagger's run on one review: theme_analysis.main lines 222 and 225.  *)
(***************************************************************************)
NotRun == << >>

InitTag ==
    /\ pc = "tokens"
    /\ tokens \in SeqsUpTo(TokenPool, MaxTokens)
    /\ theme_rules \in RuleTables
    /\ matched = NotRun
    /\ themes_str = NotRun
    /\ df = NotRun
    /\ bank_names = NotRun
    /\ theme_sentiment = NotRun
    /\ drivers = NotRun
    /\ pain_points = NotRun
    /\ comparison = NotRun
    /\ recommendations = NotRun
    /\ theme_data = NotRun
    /\ outputs = NotRun
    /\ pipeline = NotRun
    /\ scraper = NotRun

AssignThemes ==
    /\ pc = "tokens"
    /\ matched' = assign_themes(tokens, theme_rules)
    /\ pc' = "tagged"
    /\ UNCHANGED <<tokens, theme_rules, themes_str,
                   df, bank_names, theme_sentiment, drivers, pain_points,
                   comparison, recommendations,
                   theme_data, outputs, pipeline, scraper>>

JoinThemes ==
    /\ pc = "tagged"
    /\ themes_str' = PersistThemes(matched)
    /\ pc' = "persisted"
    /\ UNCHANGED <<tokens, theme_rules, matched,
                   df, bank_names, theme_sentiment, drivers, pain_points,
                   comparison, recommendations,
                   theme_data, outputs, pipeline, scraper>>

NextTag == AssignThemes \/ JoinThemes

SpecTag == InitTag /\ [][NextTag]_vars

(***************************************************************************)
(* generate_insights.main, lines 405-417.                                  *)
(***************************************************************************)
Init ==
    /\ pc = "loaded"
    /\ \E n \in 0..MaxReviews :
         \E b \in [1..n -> Range(BankPool)], r \in [1..n -> RatingPool],
            l \in [1..n -> SentimentLabels], t \in [1..n -> TagOutcomes] :
              df = Frame(n, b, r, l, t)
    /\ bank_names = BankNamesOf(df)
    /\ tokens = NotRun
    /\ theme_rules = NotRun
    /\ matched = NotRun
    /\ themes_str = NotRun
    /\ theme_sentiment = NotRun
    /\ drivers = NotRun
    /\ pain_points = NotRun
    /\ comparison = NotRun
    /\ recommendations = NotRun
    /\ theme_data = NotRun
    /\ outputs = NotRun
    /\ pipeline = NotRun
    /\ scraper = NotRun

AnalyzeThemeSentiment ==
    /\ pc = "loaded"
    /\ theme_sentiment' \in analyze_theme_sentiment(df)
    /\ pc' = "analyzed"
    /\ UNCHANGED <<tokens, theme_rules, matched, themes_str,
                   df, bank_names, drivers, pain_points,
                   comparison, recommendations,
                   theme_data, outputs, pipeline, scraper>>

\* The driver lists of the first bank only.
IdentifyDriversOfFirstBank ==
    /\ pc = "analyzed"
    /\ drivers' = identify_drivers(Take(bank_names, 1), theme_sentiment)
    /\ pc' = "drivers"
    /\ UNCHANGED <<tokens, theme_rules, matched, themes_str,
                   df, bank_names, theme_sentiment, pain_points,
                   comparison, recommendations,
                   theme_data, outputs, pipeline, scraper>>

IdentifyDrivers ==
    /\ pc = "analyzed"
    /\ drivers' = identify_drivers(bank_names, theme_sentiment)
    /\ pc' = "drivers"
    /\ UNCHANGED <<tokens, theme_rules, matched, themes_str,
                   df, bank_names, theme_sentiment, pain_points,
                   comparison, recommendations,
                   theme_data, outputs, pipeline, scraper>>

IdentifyPainPoints ==
    /\ pc = "drivers"
    /\ pain_points' = identify_pain_points(bank_names, theme_sentiment)
    /\ pc' = "pain_points"
    /\ UNCHANGED <<tokens, theme_rules, matched, themes_str,
                   df, bank_names, theme_sentiment, drivers,
                   comparison, recommendations,
                   theme_data, outputs, pipeline, scraper>>

Next == AnalyzeThemeSentiment \/ IdentifyDrivers \/ IdentifyPainPoints

Spec == Init /\ [][Next]_vars

(***************************************************************************)
(* The classifier on theme statistics of any size: the frame is not        *)
(* represented, only its bank list and its aggregate.                      *)
(***************************************************************************)
InitClassify ==
    /\ pc = "analyzed"
    /\ df = NotRun
    /\ bank_names = BankPool
    /\ \/ \E k \in 0..2 :
            \E f \in [1..k -> BoundaryShapes], g \in SeqsUpTo({ <<10, 3, 3, 29>> }, 1) :
              theme_sentiment = [b \in Range(BankPool) |->
                                   IF b = BankPool[1] THEN StatSeq(f) ELSE StatSeq(g)]
       \/ \E k \in 0..MaxThemes :
            \E f \in [1..k -> RankShapes] :
              theme_sentiment = [b \in Range(BankPool) |->
                                   IF b = BankPool[1] THEN StatSeq(f) ELSE << >>]
    /\ tokens = NotRun
    /\ theme_rules = NotRun
    /\ matched = NotRun
    /\ themes_str = NotRun
    /\ drivers = NotRun
    /\ pain_points = NotRun
    /\ comparison = NotRun
    /\ recommendations = NotRun
    /\ theme_data = NotRun
    /\ outputs = NotRun
    /\ pipeline = NotRun
    /\ scraper = NotRun

NextClassify == IdentifyDrivers \/ IdentifyPainPoints

SpecClassify == InitClassify /\ [][NextClassify]_vars

(***************************************************************************)
(* generate_insights.main, line 421: compare_banks reads the frame only,   *)
(* so the aggregate and the two lists are not represented.                 *)
(***************************************************************************)
InitCompare ==
    /\ pc = "pain_points"
    /\ \E n \in 0..MaxReviews :
         \E b \in [1..n -> Range(BankPool)], r \in [1..n -> RatingPool],
            l \in [1..n -> SentimentLabels], t \in [1..n -> TagOutcomes] :
              df = Frame(n, b, r, l, t)
    /\ bank_names = BankNamesOf(df)
    /\ tokens = NotRun
    /\ theme_rules = NotRun
    /\ matched = NotRun
    /\ themes_str = NotRun
    /\ theme_sentiment = NotRun
    /\ drivers = NotRun
    /\ pain_points = NotRun
    /\ comparison = NotRun
    /\ recommendations = NotRun
    /\ theme_data = NotRun
    /\ outputs = NotRun
    /\ pipeline = NotRun
    /\ scraper = NotRun

CompareBanks ==
    /\ pc = "pain_points"
    /\ comparison' \in compare_banks(df)
    /\ pc' = "compared"
    /\ UNCHANGED <<tokens, theme_rules, matched, themes_str,
                   df, bank_names, theme_sentiment, drivers, pain_points,
                   recommendations,
                   theme_data, outputs, pipeline, scraper>>

NextCompare == CompareBanks

SpecCompare == InitCompare /\ [][NextCompare]_vars

(***************************************************************************)
(* generate_recommendations on lists of any length: of the run so far only *)
(* what the function reads is represented, the driver and pain-point lists *)
(* and each bank's avg_rating in the comparison.                           *)
(***************************************************************************)
\* The banks of the configuration.
AllBanks == << "Dashen Bank", "Bank of Abyssinia", "Commercial Bank of Ethiopia" >>

\* Keys of theme statistics: the five themes that have a template of their
\* own, in the order of the configuration; the key a review tagged with two
\* themes is aggregated under; and a theme without a template.
StatThemeKeys ==
    << << "Access & Login" >>, << "Performance & Reliability" >>,
       << "Transactions & Payments" >>, << "User Experience" >>,
       << "Customer Support" >>,
       << "Access & Login", "|", "Performance & Reliability" >>,
       << "Features & Functionality" >> >>

\* Statistics of qualifying themes: theme i of the bank has shape f[i].
QualifyingStats(f) == [i \in 1..Len(f) |-> MkStat(StatThemeKeys[i], f[i])]

\* Pain-point statistics: 5 of 12 reviews negative (41.7 %) rated 2.58, and
\* 9 of 10 negative (90.0 %) rated 2.00.
MildPain == <<12, 2, 5, 31>>

SeverePain == <<10, 1, 9, 20>>

\* Driver statistics: 18 of 20 reviews positive (90.0 %) rated 4.50, and
\* 12 of 20 positive (60.0 %) rated 4.00.
StrongDriver == <<20, 18, 1, 90>>

WeakDriver == <<20, 12, 6, 80>>

\* Bank averages: 2.40 and 2.70 are 0.30 apart and so are 2.70 and 3.00.
ComparisonRatings == { 240, 270, 271, 300 }

\* The part of compare_banks' record that generate_recommendations reads.
RatingOnly(avg_rating) == [avg_rating |-> avg_rating]

InitRecommend ==
    /\ pc = "compared"
    /\ bank_names = AllBanks
    /\ \E k \in 0..MaxThemes, j2 \in 0..3, j3 \in 0..2 :
         \E hot \in 0..k, g \in [1..j2 -> { StrongDriver, WeakDriver }],
            h \in [1..j3 -> { MildPain, StrongDriver }] :
              LET f     == [i \in 1..k |-> IF i = hot THEN SeverePain ELSE MildPain]
                  stats == [b \in Range(AllBanks) |->
                              IF b = AllBanks[1] THEN QualifyingStats(f)
                              ELSE IF b = AllBanks[2] THEN QualifyingStats(g)
                              ELSE QualifyingStats(h)]
              IN  /\ drivers = identify_drivers(AllBanks, stats)
                  /\ pain_points = identify_pain_points(AllBanks, stats)
    /\ \E r \in [Range(AllBanks) -> ComparisonRatings] :
         comparison = [b \in Range(AllBanks) |-> RatingOnly(r[b])]
    /\ df = NotRun
    /\ theme_sentiment = NotRun
    /\ tokens = NotRun
    /\ theme_rules = NotRun
    /\ matched = NotRun
    /\ themes_str = NotRun
    /\ recommendations = NotRun
    /\ theme_data = NotRun
    /\ outputs = NotRun
    /\ pipeline = NotRun
    /\ scraper = NotRun

GenerateRecommendations ==
    /\ pc = "compared"
    /\ recommendations' =
           generate_recommendations(bank_names, drivers, pain_points, comparison)
    /\ pc' = "recommended"
    /\ UNCHANGED <<tokens, theme_rules, matched, themes_str,
                   df, bank_names, theme_sentiment, drivers, pain_points,
                   comparison,
                   theme_data, outputs, pipeline, scraper>>

NextRecommend == GenerateRecommendations

SpecRecommend == InitRecommend /\ [][NextRecommend]_vars

(***************************************************************************)
(* generate_insights.main run end to end: the file at THEME_DATA_PATH is   *)
(* loaded, the five functions run in the order main calls them, and the    *)
(* two output files are written.  Frames are built from blocks of equal    *)
(* consecutive rows so that themes reach the review-count thresholds.      *)
(***************************************************************************)
MaxBlocks == 2

BlockSizes == { 1, DRIVER_MIN_REVIEWS }

BlockTags == { << RuleThemes[1] >>, << RuleThemes[1], RuleThemes[2] >> }

BlockKinds == { [rating |-> 5, label |-> "positive"],
                [rating |-> 2, label |-> "negative"] }

RECURSIVE BlockRows(_, _)
BlockRows(blocks, start) ==
    IF blocks = << >> THEN << >>
    ELSE LET blk == Head(blocks)
         IN  [i \in 1..blk.size |->
                 Row(start + i, blk.bank, blk.kind.rating, blk.kind.label, blk.tags)]
             \o BlockRows(Tail(blocks), start + blk.size)

BlockFrame(blocks) == BlockRows(blocks, 0)

JSON_PATH == "insights_summary.json"

REPORT_PATH == "insights_report.txt"

MissingFile == [exists |-> FALSE]

ZeroByteFile == [exists |-> TRUE, columns |-> FALSE]

CsvFile(rows) == [exists |-> TRUE, columns |-> TRUE, rows |-> rows]

\* load_data: FileNotFoundError for a missing file, pandas' EmptyDataError
\* for a file without a header line, else the rows of the file.
CanLoad(file) == file.exists /\ file.columns

load_data(file) == file.rows

Insights(d, p, c, r) ==
    [ drivers |-> d, pain_points |-> p, comparison |-> c, recommendations |-> r ]

\* json.dump: a mapping becomes an object whose member names are strings, so
\* the integer keys of rating_distribution are written as their decimal
\* text; strings, numbers and lists are written as themselves.
JsonObject(mapping) ==
    { [name |-> ToString(k), value |-> mapping[k]] : k \in DOMAIN mapping }

JsonDump(insights) ==
    [ insights EXCEPT !.comparison =
        [b \in DOMAIN insights.comparison |->
            [ insights.comparison[b] EXCEPT
                !.rating_distribution = JsonObject(@) ]] ]

RECURSIVE Flatten(_)
Flatten(lists) ==
    IF lists = << >> THEN << >> ELSE Head(lists) \o Flatten(Tail(lists))

DriverLines(i, driver) ==
    << << i, driver.theme >>,
       << "Positive sentiment", driver.positive_pct >>,
       << "Average rating", driver.avg_rating >>,
       << "Reviews", driver.review_count >> >>
    \o (IF driver.evidence # << >> THEN << << "Sample", driver.evidence[1] >> >>
        ELSE << >>)

PainPointLines(i, pain_point) ==
    << << i, pain_point.theme >>,
       << "Negative sentiment", pain_point.negative_pct >>,
       << "Average rating", pain_point.avg_rating >>,
       << "Reviews", pain_point.review_count >> >>
    \o (IF pain_point.evidence # << >> THEN << << "Sample", pain_point.evidence[1] >> >>
        ELSE << >>)

ComparisonLines(bank_name, stats) ==
    << << bank_name >>,
       << "Total Reviews", stats.total_reviews >>,
       << "Average Rating", stats.avg_rating >>,
       << "Positive Sentiment", stats.positive_pct >>,
       << "Negative Sentiment", stats.negative_pct >>,
       << "Top Themes",
          [i \in 1..Len(stats.top_themes) |-> stats.top_themes[i].theme] >> >>

RecommendationLines(i, rec) ==
    << << i, rec.priority, rec.recommendation >>,
       << "Category", rec.category >>,
       << "Rationale", rec.rationale >>,
       << "Actions", rec.actions >> >>

generate_insights_report(insights, banks) ==
    LET d == insights.drivers
        p == insights.pain_points
        c == insights.comparison
        r == insights.recommendations
    IN  << << "DRIVERS (Positive Aspects)" >> >>
        \o Flatten([n \in 1..Len(banks) |->
              << << banks[n] >> >>
              \o (IF d[banks[n]] # << >>
                  THEN Flatten([i \in 1..Len(d[banks[n]]) |-> DriverLines(i, d[banks[n]][i])])
                  ELSE << << "No significant drivers identified." >> >>)])
        \o << << "PAIN POINTS (Negative Aspects)" >> >>
        \o Flatten([n \in 1..Len(banks) |->
              << << banks[n] >> >>
              \o (IF p[banks[n]] # << >>
                  THEN Flatten([i \in 1..Len(p[banks[n]]) |-> PainPointLines(i, p[banks[n]][i])])
                  ELSE << << "No significant pain points identified." >> >>)])
        \o << << "BANK COMPARISON" >> >>
        \o Flatten([n \in 1..Len(banks) |-> ComparisonLines(banks[n], c[banks[n]])])
        \o << << "RECOMMENDATIONS" >> >>
        \o Flatten([n \in 1..Len(banks) |->
              << << banks[n] >> >>
              \o Flatten([i \in 1..Len(r[banks[n]]) |->
                            RecommendationLines(i, r[banks[n]][i])])])

InitMain ==
    /\ pc = "start"
    /\ \/ theme_data = MissingFile
       \/ theme_data = ZeroByteFile
       \/ \E n \in 0..MaxBlocks :
            \E b \in [1..n -> Range(BankPool)], k \in [1..n -> BlockKinds],
               t \in [1..n -> BlockTags], s \in [1..n -> BlockSizes] :
                 theme_data = CsvFile(BlockFrame(
                     [i \in 1..n |-> [bank |-> b[i], kind |-> k[i],
                                      tags |-> t[i], size |-> s[i]]]))
    /\ outputs = << >>
    /\ pipeline = NotRun
    /\ scraper = NotRun
    /\ df = NotRun
    /\ bank_names = NotRun
    /\ tokens = NotRun
    /\ theme_rules = NotRun
    /\ matched = NotRun
    /\ themes_str = NotRun
    /\ theme_sentiment = NotRun
    /\ drivers = NotRun
    /\ pain_points = NotRun
    /\ comparison = NotRun
    /\ recommendations = NotRun

LoadData ==
    /\ pc = "start"
    /\ IF CanLoad(theme_data)
       THEN /\ df' = load_data(theme_data)
            /\ bank_names' = BankNamesOf(df')
            /\ pc' = "loaded"
       ELSE /\ pc' = "failed"
            /\ UNCHANGED <<df, bank_names>>
    /\ UNCHANGED <<tokens, theme_rules, matched, themes_str,
                   theme_sentiment, drivers, pain_points,
                   comparison, recommendations,
                   theme_data, outputs, pipeline, scraper>>

SaveJson ==
    /\ pc = "recommended"
    /\ outputs' = outputs @@
           (JSON_PATH :> JsonDump(Insights(drivers, pain_points,
                                           comparison, recommendations)))
    /\ pc' = "json_saved"
    /\ UNCHANGED <<tokens, theme_rules, matched, themes_str,
                   df, bank_names, theme_sentiment, drivers, pain_points,
                   comparison, recommendations,
                   theme_data, pipeline, scraper>>

SaveReport ==
    /\ pc = "json_saved"
    /\ outputs' = outputs @@
           (REPORT_PATH :> generate_insights_report(
                               Insights(drivers, pain_points,
                                        comparison, recommendations),
                               bank_names))
    /\ pc' = "done"
    /\ UNCHANGED <<tokens, theme_rules, matched, themes_str,
                   df, bank_names, theme_sentiment, drivers, pain_points,
                   comparison, recommendations,
                   theme_data, pipeline, scraper>>

NextMain ==
    \/ LoadData
    \/ AnalyzeThemeSentiment
    \/ IdentifyDrivers
    \/ IdentifyPainPoints
    \/ CompareBanks
    \/ GenerateRecommendations
    \/ SaveJson
    \/ SaveReport

SpecMain == InitMain /\ [][NextMain]_vars

(***************************************************************************)
(* The per-bank loop bodies of identify_drivers, identify_pain_points and  *)
(* compare_banks as separate steps that may run in any order: each reads   *)
(* df or theme_sentiment and assigns the entry of its own bank.            *)
(***************************************************************************)
InitInterleave ==
    /\ pc = "analyzed"
    /\ \E n \in 0..MaxBlocks :
         \E b \in [1..n -> Range(BankPool)], k \in [1..n -> BlockKinds],
            t \in [1..n -> BlockTags] :
              df = BlockFrame([i \in 1..n |-> [bank |-> b[i], kind |-> k[i],
                                               tags |-> t[i],
                                               size |-> DRIVER_MIN_REVIEWS]])
    /\ bank_names = BankNamesOf(df)
    /\ theme_sentiment \in analyze_theme_sentiment(df)
    /\ drivers = << >>
    /\ pain_points = << >>
    /\ comparison = << >>
    /\ tokens = NotRun
    /\ theme_rules = NotRun
    /\ matched = NotRun
    /\ themes_str = NotRun
    /\ recommendations = NotRun
    /\ theme_data = NotRun
    /\ outputs = NotRun
    /\ pipeline = NotRun
    /\ scraper = NotRun

\* bank_drivers is created outside the loop and shared by the banks.
DriversOfBankSharedList ==
    \E bank_name \in Range(bank_names) \ DOMAIN drivers :
        /\ drivers' = drivers @@
               (bank_name :>
                   (IF DOMAIN drivers = {} THEN << >>
                    ELSE drivers[CHOOSE other \in DOMAIN drivers : TRUE])
                   \o identify_drivers(<< bank_name >>, theme_sentiment)[bank_name])
        /\ UNCHANGED <<pc, tokens, theme_rules, matched, themes_str,
                       df, bank_names, theme_sentiment, pain_points,
                       comparison, recommendations,
                       theme_data, outputs, pipeline, scraper>>

DriversOfBank ==
    \E bank_name \in Range(bank_names) \ DOMAIN drivers :
        /\ drivers' = drivers @@
               (bank_name :> identify_drivers(<< bank_name >>, theme_sentiment)[bank_name])
        /\ UNCHANGED <<pc, tokens, theme_rules, matched, themes_str,
                       df, bank_names, theme_sentiment, pain_points,
                       comparison, recommendations,
                       theme_data, outputs, pipeline, scraper>>

PainPointsOfBank ==
    \E bank_name \in Range(bank_names) \ DOMAIN pain_points :
        /\ pain_points' = pain_points @@
               (bank_name :> identify_pain_points(<< bank_name >>, theme_sentiment)[bank_name])
        /\ UNCHANGED <<pc, tokens, theme_rules, matched, themes_str,
                       df, bank_names, theme_sentiment, drivers,
                       comparison, recommendations,
                       theme_data, outputs, pipeline, scraper>>

CompareBank ==
    \E bank_name \in Range(bank_names) \ DOMAIN comparison :
        /\ \E metrics \in compare_banks(BankFrame(df, bank_name)) :
               comparison' = comparison @@ (bank_name :> metrics[bank_name])
        /\ UNCHANGED <<pc, tokens, theme_rules, matched, themes_str,
                       df, bank_names, theme_sentiment, drivers, pain_points,
                       recommendations,
                       theme_data, outputs, pipeline, scraper>>

NextInterleave == DriversOfBank \/ PainPointsOfBank \/ CompareBank

SpecInterleave == InitInterleave /\ [][NextInterleave]_vars

(***************************************************************************)
(* analyze_theme_sentiment on frames in which a cell of the rating or of   *)
(* the sentiment_label column may be missing.                              *)
(***************************************************************************)
InitMalformed ==
    /\ pc = "loaded"
    /\ \E n \in 0..MaxReviews :
         \E b \in [1..n -> Range(BankPool)],
            r \in [1..n -> RatingPool \cup { NaN }],
            l \in [1..n -> { "positive", "negative", NoLabel }],
            t \in [1..n -> BlockTags] :
              df = Frame(n, b, r, l, t)
    /\ bank_names = BankNamesOf(df)
    /\ tokens = NotRun
    /\ theme_rules = NotRun
    /\ matched = NotRun
    /\ themes_str = NotRun
    /\ theme_sentiment = NotRun
    /\ drivers = NotRun
    /\ pain_points = NotRun
    /\ comparison = NotRun
    /\ recommendations = NotRun
    /\ theme_data = NotRun
    /\ outputs = NotRun
    /\ pipeline = NotRun
    /\ scraper = NotRun

NextMalformed == AnalyzeThemeSentiment

SpecMalformed == InitMalformed /\ [][NextMalformed]_vars

(***************************************************************************)
(* run_pipeline.main: the four steps, each run or skipped in turn.         *)
(***************************************************************************)
STEPS == << "scraping", "preprocessing", "sentiment_analysis", "theme_analysis" >>

\* The file each step writes and run_<step> verifies: RAW_DATA_PATH,
\* PROCESSED_DATA_PATH, SENTIMENT_DATA_PATH, THEME_DATA_PATH.
STEP_OUTPUT ==
    << "reviews_raw.csv", "reviews_clean.csv",
       "reviews_with_sentiment.csv", "reviews_with_themes.csv" >>

StepPc(k) == IF k <= Len(STEPS) THEN STEPS[k] ELSE "summary"

\* What running step k can do.  It reports success only if its script ran
\* through, which needs the previous step's file, and its own file exists
\* afterwards.  It reports failure when the script raised an Exception or
\* the file is not found, with or without the file written.  Importing
\* theme_analysis without spaCy raises SystemExit, which no run_<step>
\* catches: the interpreter leaves main.
StepOutcomes(k, files) ==
    LET has_input == k = 1 \/ STEP_OUTPUT[k - 1] \in files
    IN  (IF has_input
         THEN { [result |-> "success", files |-> files \cup { STEP_OUTPUT[k] }],
                [result |-> "failure", files |-> files \cup { STEP_OUTPUT[k] }] }
         ELSE {})
        \cup { [result |-> "failure", files |-> files] }
        \cup (IF STEPS[k] = "theme_analysis"
              THEN { [result |-> "exit", files |-> files] } ELSE {})

\* A failing step does not stop the pipeline.
RunStepKeepsGoing(k) ==
    \E outcome \in StepOutcomes(k, pipeline.files) :
        /\ pipeline' =
             [ pipeline EXCEPT
                 !.executed = Append(@, STEPS[k]),
                 !.results = Append(@, outcome.result),
                 !.files = outcome.files,
                 !.steps_completed =
                     IF outcome.result = "success" THEN @ + 1 ELSE @,
                 !.steps_failed =
                     IF outcome.result = "failure" THEN @ + 1 ELSE @ ]
        /\ pc' = IF outcome.result = "exit" THEN "exited" ELSE StepPc(k + 1)

\* The branch `if run_<step>(): ... else: ... return 1` of step k.
RunStep(k) ==
    \E outcome \in StepOutcomes(k, pipeline.files) :
        /\ pipeline' =
             [ pipeline EXCEPT
                 !.executed = Append(@, STEPS[k]),
                 !.results = Append(@, outcome.result),
                 !.files = outcome.files,
                 !.steps_completed =
                     IF outcome.result = "success" THEN @ + 1 ELSE @,
                 !.steps_failed =
                     IF outcome.result = "failure" THEN @ + 1 ELSE @,
                 !.log =
                     IF outcome.result = "failure"
                     THEN Append(@, [level |-> "error", step |-> STEPS[k]])
                     ELSE @,
                 !.returned = outcome.result = "failure",
                 !.exit_code = IF outcome.result = "failure" THEN 1 ELSE @ ]
        /\ pc' = CASE outcome.result = "success" -> StepPc(k + 1)
                   [] outcome.result = "failure" -> "returned"
                   [] outcome.result = "exit"    -> "exited"

\* Skipping a step whose file is missing stops the pipeline.
SkipStepStopsOnMissing(k) ==
    /\ pipeline' =
         [ pipeline EXCEPT
             !.log = Append(@,
                 [level |-> IF STEP_OUTPUT[k] \in pipeline.files
                            THEN "info" ELSE "warning",
                  step  |-> STEPS[k]]),
             !.returned = STEP_OUTPUT[k] \notin pipeline.files,
             !.exit_code = IF STEP_OUTPUT[k] \in pipeline.files THEN @ ELSE 1 ]
    /\ pc' = IF STEP_OUTPUT[k] \in pipeline.files THEN StepPc(k + 1) ELSE "returned"

\* The branch `else:` of step k: the step is skipped, and a line says
\* whether its file exists.
SkipStep(k) ==
    /\ pipeline' =
         [ pipeline EXCEPT
             !.log = Append(@,
                 [level |-> IF STEP_OUTPUT[k] \in pipeline.files
                            THEN "info" ELSE "warning",
                  step  |-> STEPS[k]]) ]
    /\ pc' = StepPc(k + 1)

\* One `if not skip_<step>: ... else: ...` block of main.
Step(k) ==
    /\ pc = StepPc(k)
    /\ IF ~pipeline.skip[k] THEN RunStep(k) ELSE SkipStep(k)
    /\ UNCHANGED <<tokens, theme_rules, matched, themes_str,
                   df, bank_names, theme_sentiment, drivers, pain_points,
                   comparison, recommendations, theme_data, outputs, scraper>>

Scraping == Step(1)

Preprocessing == Step(2)

SentimentAnalysis == Step(3)

ThemeAnalysis == Step(4)

\* Lines 319-332: the summary and the exit code.
Summary ==
    /\ pc = "summary"
    /\ pipeline' = [ pipeline EXCEPT
                       !.returned = TRUE,
                       !.exit_code = IF pipeline.steps_failed = 0 THEN 0 ELSE 1 ]
    /\ pc' = "returned"
    /\ UNCHANGED <<tokens, theme_rules, matched, themes_str,
                   df, bank_names, theme_sentiment, drivers, pain_points,
                   comparison, recommendations, theme_data, outputs, scraper>>

InitPipeline ==
    /\ pc = StepPc(1)
    /\ \E skip \in [1..Len(STEPS) -> BOOLEAN], files \in SUBSET Range(STEP_OUTPUT) :
         pipeline = [ skip            |-> skip,
                      files           |-> files,
                      executed        |-> << >>,
                      results         |-> << >>,
                      log             |-> << >>,
                      steps_completed |-> 0,
                      steps_failed    |-> 0,
                      returned        |-> FALSE,
                      exit_code       |-> 0 ]
    /\ scraper = NotRun
    /\ tokens = NotRun
    /\ theme_rules = NotRun
    /\ matched = NotRun
    /\ themes_str = NotRun
    /\ df = NotRun
    /\ bank_names = NotRun
    /\ theme_sentiment = NotRun
    /\ drivers = NotRun
    /\ pain_points = NotRun
    /\ comparison = NotRun
    /\ recommendations = NotRun
    /\ theme_data = NotRun
    /\ outputs = NotRun

NextPipeline ==
    \/ Scraping
    \/ Preprocessing
    \/ SentimentAnalysis
    \/ ThemeAnalysis
    \/ Summary

SpecPipeline == InitPipeline /\ [][NextPipeline]_vars

(***************************************************************************)
(* scrape_reviews.fetch_reviews_for_bank: the loop that calls the remote   *)
(* reviews API until enough reviews are collected.  The API is free to     *)
(* return any batch, with or without a continuation token, or to raise.    *)
(***************************************************************************)
MAX_ATTEMPTS == 50

\* The largest batch the API returns in one call.
MaxBatch == 2

NoToken == "None"

\* min_reviews: none wanted, one wanted, more wanted than max_attempts calls
\* of one review each deliver.
MinReviewsPool == { 0, 1, MAX_ATTEMPTS + MaxBatch }

\* The reviews the API hands out are numbered in the order of delivery.
Batch(delivered, size) == [i \in 1..size |-> delivered + i]

\* The loop goes on whatever the number of attempts.
LoopConditionUncapped == Len(scraper.all_reviews) < scraper.min_reviews

\* while len(all_reviews) < min_reviews and attempts < max_attempts
LoopCondition ==
    /\ Len(scraper.all_reviews) < scraper.min_reviews
    /\ scraper.attempts < MAX_ATTEMPTS

InitFetch ==
    /\ pc = "loop"
    /\ \E m \in MinReviewsPool :
         scraper = [ min_reviews        |-> m,
                     all_reviews        |-> << >>,
                     continuation_token |-> NoToken,
                     attempts           |-> 0,
                     calls              |-> 0,
                     delivered          |-> 0,
                     last               |-> "none",
                     result             |-> << >> ]
    /\ pipeline = NotRun
    /\ tokens = NotRun
    /\ theme_rules = NotRun
    /\ matched = NotRun
    /\ themes_str = NotRun
    /\ df = NotRun
    /\ bank_names = NotRun
    /\ theme_sentiment = NotRun
    /\ drivers = NotRun
    /\ pain_points = NotRun
    /\ comparison = NotRun
    /\ recommendations = NotRun
    /\ theme_data = NotRun
    /\ outputs = NotRun

\* One pass of the loop body: the call raises, or returns a batch and a
\* token; an empty batch, a token of None and an exception leave the loop.
FetchBatch ==
    /\ pc = "loop"
    /\ LoopCondition
    /\ \/ /\ scraper' = [ scraper EXCEPT !.calls = @ + 1, !.last = "raised" ]
          /\ pc' = "after_loop"
       \/ \E size \in 0..MaxBatch, token \in { NoToken, "token" } :
            LET batch == Batch(scraper.delivered, size)
            IN  IF batch = << >>
                THEN /\ scraper' = [ scraper EXCEPT
                                       !.calls = @ + 1,
                                       !.continuation_token = token,
                                       !.last = "empty" ]
                     /\ pc' = "after_loop"
                ELSE /\ scraper' = [ scraper EXCEPT
                                       !.calls = @ + 1,
                                       !.delivered = @ + size,
                                       !.continuation_token = token,
                                       !.all_reviews = @ \o batch,
                                       !.attempts = @ + 1,
                                       !.last = "batch" ]
                     /\ pc' = IF token = NoToken THEN "after_loop" ELSE "loop"
    /\ UNCHANGED <<tokens, theme_rules, matched, themes_str,
                   df, bank_names, theme_sentiment, drivers, pain_points,
                   comparison, recommendations, theme_data, outputs, pipeline>>

\* The loop condition fails, or the loop was left: return all_reviews.
ReturnReviews ==
    /\ \/ pc = "loop" /\ ~LoopCondition
       \/ pc = "after_loop"
    /\ scraper' = [ scraper EXCEPT !.result = scraper.all_reviews ]
    /\ pc' = "returned"
    /\ UNCHANGED <<tokens, theme_rules, matched, themes_str,
                   df, bank_names, theme_sentiment, drivers, pain_points,
                   comparison, recommendations, theme_data, outputs, pipeline>>

NextFetch == FetchBatch \/ ReturnReviews

\* The function runs in one thread and every call to the API returns or
\* raises, so a step that can be taken is taken.
SpecFetch == InitFetch /\ [][NextFetch]_vars /\ WF_vars(NextFetch)

(***************************************************************************)
(* Properties of the tagger, checked under SpecTag.                        *)
(***************************************************************************)
Tagged == pc \in { "tagged", "persisted" }

NoDuplicates(list) == \A i, j \in 1..Len(list) : list[i] = list[j] => i = j

\* The matching rule as the specification words it.
KeywordRule(keyword, toks) ==
    IF " " \in Range(keyword)
    THEN IsSubstring(keyword, Join(toks, << " " >>))
    ELSE \E i \in 1..Len(toks) : toks[i] = keyword

ThemeRule(rule, toks) ==
    \E k \in 1..Len(rule.keywords) : KeywordRule(rule.keywords[k], toks)

\* C1: whatever the tokens and the rule table, assign_themes returns at
\* least one theme label.
C1_ThemesNonEmpty == Tagged => Len(matched) >= 1

\* C1 witness: a review without tokens has been tagged, with the sentinel.
C1_Witness ==
    /\ pc = "persisted"
    /\ tokens = << >>
    /\ matched = << GENERAL_FEEDBACK >>
    /\ themes_str = << GENERAL_FEEDBACK >>

\* C2: a theme is in the result exactly when one of its keywords matches by
\* the rule (a phrase as a substring of the joined text, a word as a member
\* of the token set), and no theme is in the result twice.
C2_ThemeIffKeywordRule ==
    Tagged =>
        /\ \A t \in 1..Len(theme_rules) :
               (theme_rules[t].theme \in Range(matched))
                   <=> ThemeRule(theme_rules[t], tokens)
        /\ NoDuplicates(matched)

\* C2 witness: in "ab a" the phrase "b a" matched across two tokens, while
\* the word "b", part of a token but no token itself, did not.
C2_Witness ==
    /\ pc = "tagged"
    /\ tokens = << <<"a", "b">>, <<"a">> >>
    /\ theme_rules[1].keywords = << <<"b">> >>
    /\ theme_rules[2].keywords = << <<"a", " ", "b">>, <<"b", " ", "a">> >>
    /\ matched = << RuleThemes[2] >>

\* C3: the sentinel is returned exactly when no theme of the table matched,
\* and then it is the only label.
C3_SentinelIffNoMatch ==
    Tagged =>
        LET any == \E t \in 1..Len(theme_rules) : ThemeRule(theme_rules[t], tokens)
        IN  /\ (GENERAL_FEEDBACK \in Range(matched)) <=> ~any
            /\ ~any => matched = << GENERAL_FEEDBACK >>

\* C3 witness: tokens and keywords are present, none matches, and the
\* sentinel alone is returned.
C3_Witness ==
    /\ pc = "tagged"
    /\ tokens = << <<"a", "b">> >>
    /\ \A t \in 1..Len(theme_rules) : Len(theme_rules[t].keywords) = MaxKeywords
    /\ matched = << GENERAL_FEEDBACK >>

(***************************************************************************)
(* Properties of the aggregator, checked under Spec.                       *)
(***************************************************************************)
Analyzed == pc \in { "analyzed", "drivers", "pain_points" }

\* The theme labels the tagger gave a row, each as the text of its name.
LabelsOf(row) == { << row.tags[i] >> : i \in 1..Len(row.tags) }

StatKeys(bank) == { theme_sentiment[bank][i].theme : i \in 1..Len(theme_sentiment[bank]) }

\* The rows of a bank the tagger labelled with `theme`.
RowsTagged(bank, theme) ==
    SelectSeq(BankFrame(df, bank), LAMBDA row : theme \in LabelsOf(row))

\* C4: for every bank the themes that have statistics are the labels the
\* tagger assigned to the bank's reviews: the persisted theme string is
\* parsed back into the labels it was joined from.
C4_StatKeysAreTaggedLabels ==
    Analyzed =>
        \A bank \in DOMAIN theme_sentiment :
            StatKeys(bank) =
                UNION { LabelsOf(BankFrame(df, bank)[i]) :
                          i \in 1..Len(BankFrame(df, bank)) }

\* C5: for every theme with statistics, total_reviews is the number of the
\* bank's reviews labelled with the theme, positive_count the number of
\* those labelled positive and negative_count of those labelled negative.
C5_CountsAreWholeLabelCounts ==
    Analyzed =>
        \A bank \in DOMAIN theme_sentiment :
            \A i \in 1..Len(theme_sentiment[bank]) :
                LET stats  == theme_sentiment[bank][i]
                    tagged == RowsTagged(bank, stats.theme)
                IN  /\ stats.total_reviews = Len(tagged)
                    /\ stats.positive_count = Len(WithLabel(tagged, "positive"))
                    /\ stats.negative_count = Len(WithLabel(tagged, "negative"))

\* C6: every theme statistic has positive_count + negative_count <=
\* total_reviews, total_reviews >= 1, both percentages between 0 and 100,
\* and each percentage equal to its count / total_reviews * 100.
C6_StatsWellFormed ==
    Analyzed =>
        \A bank \in DOMAIN theme_sentiment :
            \A i \in 1..Len(theme_sentiment[bank]) :
                LET stats == theme_sentiment[bank][i]
                    InRange(pct) == pct.den > 0 /\ 0 <= pct.num /\ pct.num <= 100 * pct.den
                    IsPctOf(pct, count) ==
                        pct.num * stats.total_reviews = 100 * count * pct.den
                IN  /\ stats.positive_count + stats.negative_count <= stats.total_reviews
                    /\ stats.total_reviews >= 1
                    /\ InRange(stats.positive_pct)
                    /\ InRange(stats.negative_pct)
                    /\ IsPctOf(stats.positive_pct, stats.positive_count)
                    /\ IsPctOf(stats.negative_pct, stats.negative_count)

\* C6 witness: a theme of two reviews, one positive and one neutral, so that
\* the counts add up to less than the total and the percentages are 50 and 0.
C6_Witness ==
    /\ pc = "analyzed"
    /\ \E bank \in DOMAIN theme_sentiment :
         \E i \in 1..Len(theme_sentiment[bank]) :
            LET stats == theme_sentiment[bank][i]
            IN  /\ stats.total_reviews = 2
                /\ stats.positive_count = 1
                /\ stats.negative_count = 0
                /\ stats.positive_pct = [num |-> 100, den |-> 2]

(***************************************************************************)
(* Properties of the classifier, checked under SpecClassify.               *)
(***************************************************************************)
DriversDone == pc \in { "drivers", "pain_points" }

PainPointsDone == pc = "pain_points"

ThemesIn(list) == { list[i].theme : i \in 1..Len(list) }

\* The driver predicate as the specification states it: positive_pct >= 60.0,
\* avg_rating >= 4.0, total_reviews >= 20.
DriverRule(stats) ==
    /\ stats.positive_pct.num >= 60 * stats.positive_pct.den
    /\ stats.avg_rating >= 400
    /\ stats.total_reviews >= 20

\* The pain-point predicate as the specification states it: negative_pct >=
\* 30.0, avg_rating < 3.0, total_reviews >= 10.
PainPointRule(stats) ==
    /\ stats.negative_pct.num >= 30 * stats.negative_pct.den
    /\ stats.avg_rating < 300
    /\ stats.total_reviews >= 10

C9_DriversAndPainPointsDisjoint ==
    PainPointsDone =>
        \A bank \in Range(bank_names) :
            ThemesIn(drivers[bank]) \cap ThemesIn(pain_points[bank]) = { }

\* C9 witness: a bank has a driver whose statistic also has at least 30 % of
\* its reviews negative, and has a pain point as well.
C9_Witness ==
    /\ pc = "pain_points"
    /\ \E bank \in Range(bank_names) :
         /\ pain_points[bank] # << >>
         /\ \E i \in 1..Len(theme_sentiment[bank]) :
              /\ theme_sentiment[bank][i].theme \in ThemesIn(drivers[bank])
              /\ PctGE(theme_sentiment[bank][i].negative_pct, 30)

\* The statistic of a bank's theme.
StatFor(bank, theme) ==
    CHOOSE stats \in Range(theme_sentiment[bank]) : stats.theme = theme

\* pct1 > pct2, on the percentages as the aggregator computed them.
PctGreater(pct1, pct2) == pct1.num * pct2.den > pct2.num * pct1.den

NonIncreasing(list, field) ==
    \A i, j \in 1..Len(list) : i < j => list[i][field] >= list[j][field]

\* C10 as stated: the driver list is ordered by non-increasing positive_pct
\* and the pain-point list by non-increasing negative_pct, each has at most
\* 5 entries, and no qualifying theme left out of a list has a strictly
\* greater percentage, as computed by the aggregator before rounding, than
\* a theme kept in it.
C10_TopFiveByExactPct ==
    PainPointsDone =>
        \A bank \in Range(bank_names) :
            /\ NonIncreasing(drivers[bank], "positive_pct")
            /\ NonIncreasing(pain_points[bank], "negative_pct")
            /\ Len(drivers[bank]) <= 5
            /\ Len(pain_points[bank]) <= 5
            /\ \A i \in 1..Len(theme_sentiment[bank]) :
                 LET stats == theme_sentiment[bank][i]
                 IN  /\ (DriverRule(stats) /\ stats.theme \notin ThemesIn(drivers[bank])) =>
                            \A j \in 1..Len(drivers[bank]) :
                                ~PctGreater(stats.positive_pct,
                                            StatFor(bank, drivers[bank][j].theme).positive_pct)
                     /\ (PainPointRule(stats) /\ stats.theme \notin ThemesIn(pain_points[bank])) =>
                            \A j \in 1..Len(pain_points[bank]) :
                                ~PctGreater(stats.negative_pct,
                                            StatFor(bank, pain_points[bank][j].theme).negative_pct)

\* C10 as amended: the same, with the percentages compared as rounded to one
\* decimal, the value the lists are sorted by and hold.
C10_TopFiveByRoundedPct ==
    PainPointsDone =>
        \A bank \in Range(bank_names) :
            /\ NonIncreasing(drivers[bank], "positive_pct")
            /\ NonIncreasing(pain_points[bank], "negative_pct")
            /\ Len(drivers[bank]) <= 5
            /\ Len(pain_points[bank]) <= 5
            /\ \A i \in 1..Len(theme_sentiment[bank]) :
                 LET stats == theme_sentiment[bank][i]
                 IN  /\ (DriverRule(stats) /\ stats.theme \notin ThemesIn(drivers[bank])) =>
                            \A j \in 1..Len(drivers[bank]) :
                                Round1(stats.positive_pct) <= drivers[bank][j].positive_pct
                     /\ (PainPointRule(stats) /\ stats.theme \notin ThemesIn(pain_points[bank])) =>
                            \A j \in 1..Len(pain_points[bank]) :
                                Round1(stats.negative_pct) <= pain_points[bank][j].negative_pct

\* C10 witness: six themes of a bank qualify as drivers, the first of them
\* not the best; the five kept are in order, the best (90.0 %) ahead of the
\* last (82.1 %), and the theme left out has 82.1 % as well.
C10_Witness ==
    /\ pc = "pain_points"
    /\ LET bank == BankPool[1]
       IN  /\ Len(theme_sentiment[bank]) = 6
           /\ \A i \in 1..6 : DriverRule(theme_sentiment[bank][i])
           /\ Len(drivers[bank]) = 5
           /\ drivers[bank][1].positive_pct = 900
           /\ drivers[bank][5].positive_pct = 821
           /\ drivers[bank][1].theme # ThemeKey(1)
           /\ \E i \in 1..6 :
                /\ theme_sentiment[bank][i].theme \notin ThemesIn(drivers[bank])
                /\ Round1(theme_sentiment[bank][i].positive_pct) = 821

\* The list with its entries at positions i and j exchanged.
Swap(list, i, j) ==
    [k \in 1..Len(list) |-> IF k = i THEN list[j] ELSE IF k = j THEN list[i] ELSE list[k]]

\* C11: the driver and pain-point lists of a bank do not depend on the order
\* in which the aggregator enumerated the bank's themes: had any two of the
\* bank's theme statistics been produced in the opposite order, both lists
\* would be the same, entry for entry.
C11_ListsIndependentOfThemeOrder ==
    PainPointsDone =>
        \A bank \in Range(bank_names) :
            \A i, j \in 1..Len(theme_sentiment[bank]) :
                LET other == [theme_sentiment EXCEPT ![bank] = Swap(@, i, j)]
                IN  /\ identify_drivers(bank_names, other)[bank] = drivers[bank]
                    /\ identify_pain_points(bank_names, other)[bank] = pain_points[bank]

(***************************************************************************)
(* Properties of the recommendations, checked under SpecRecommend.         *)
(***************************************************************************)
Recommended == pc = "recommended"

Min(a, b) == IF a < b THEN a ELSE b

IsCompetitive(rec) == rec.category = "Competitive"

\* The competitive entry names the peer and the theme.
NamesPeerAndTheme(rec, peer, theme) ==
    /\ IsCompetitive(rec)
    /\ rec.recommendation = << "Learn from ", peer, ": Improve " >> \o theme

NamesPeer(rec, peer) ==
    /\ IsCompetitive(rec)
    /\ Len(rec.recommendation) >= 2
    /\ rec.recommendation[2] = peer

\* The theme a competitive entry names.
CompetitiveTheme(rec) == SubSeq(rec.recommendation, 4, Len(rec.recommendation))

\* The entry is derived from the pain point: it is no competitive entry and
\* its rationale opens with the pain point's negative_pct and theme.
DerivedFrom(rec, pain_point) ==
    /\ ~IsCompetitive(rec)
    /\ LET opening == << FormatTenths(pain_point.negative_pct), "% of reviews mention " >>
                          \o pain_point.theme \o << " issues" >>
       IN  /\ Len(rec.rationale) >= Len(opening)
           /\ SubSeq(rec.rationale, 1, Len(opening)) = opening

\* The number of entries of a list that are not competitive.
PainDerivedCount(recs) == Cardinality({ i \in 1..Len(recs) : ~IsCompetitive(recs[i]) })

\* C12: a bank's recommendation list has at most 5 entries, no competitive
\* entry precedes a pain-point-derived entry, the pain-point-derived entries
\* follow the pain-point ranking, and the list is cut to 5 only when more
\* entries were produced.
C12_PainFirstAtMostFive ==
    Recommended =>
        \A bank \in Range(bank_names) :
            LET recs == recommendations[bank]
                n    == PainDerivedCount(recs)
                full == BankRecs(bank, bank_names, drivers, pain_points, comparison)
            IN  /\ Len(recs) <= 5
                /\ \A i, j \in 1..Len(recs) :
                       (IsCompetitive(recs[i]) /\ ~IsCompetitive(recs[j])) => j < i
                /\ \A i \in 1..n : DerivedFrom(recs[i], pain_points[bank][i])
                /\ Len(recs) = Min(5, Len(full))
                /\ \A i \in 1..Len(recs) : recs[i] = full[i]

\* C12 witness: a bank with three pain-point-derived entries and two peers
\* with two drivers each ends with three pain-point-derived entries followed
\* by two of the four competitive ones.
C12_Witness ==
    /\ Recommended
    /\ \E bank \in Range(bank_names) :
         /\ Len(BankRecs(bank, bank_names, drivers, pain_points, comparison)) = 7
         /\ Len(recommendations[bank]) = 5
         /\ PainDerivedCount(recommendations[bank]) = 3
         /\ IsCompetitive(recommendations[bank][4])
         /\ IsCompetitive(recommendations[bank][5])

\* C13: the number of pain-point-derived recommendations of a bank is the
\* smaller of 3 and the number of its pain points, the i-th of them is
\* derived from the i-th pain point, and no recommendation is derived from
\* the pain points ranked 4th and 5th.
C13_TopThreePainPoints ==
    Recommended =>
        \A bank \in Range(bank_names) :
            LET recs  == recommendations[bank]
                pains == pain_points[bank]
            IN  /\ PainDerivedCount(recs) = Min(3, Len(pains))
                /\ \A i \in 1..Min(3, Len(pains)) : DerivedFrom(recs[i], pains[i])
                /\ \A i \in 4..Len(pains) :
                       \A r \in 1..Len(recs) : ~DerivedFrom(recs[r], pains[i])
                /\ pains = << >> => \A r \in 1..Len(recs) : IsCompetitive(recs[r])

\* C13 witness: a bank with five pain points, the worst of them not the
\* first produced, has exactly three pain-point-derived recommendations and
\* the first is for the worst; another bank has no pain point and only
\* competitive recommendations.
C13_Witness ==
    /\ Recommended
    /\ \E bank \in Range(bank_names) :
         /\ Len(pain_points[bank]) = 5
         /\ pain_points[bank][1].theme = StatThemeKeys[4]
         /\ pain_points[bank][1].negative_pct > pain_points[bank][2].negative_pct
         /\ PainDerivedCount(recommendations[bank]) = 3
         /\ DerivedFrom(recommendations[bank][1], pain_points[bank][1])
    /\ \E bank \in Range(bank_names) :
         /\ pain_points[bank] = << >>
         /\ recommendations[bank] # << >>

\* C14: the template of a pain point's recommendation is selected by the
\* exact name of its theme: Performance & Reliability, Access & Login and
\* Transactions & Payments give priority HIGH with categories Technical,
\* Security & UX and Core Functionality; Customer Support and User Experience
\* give MEDIUM with Service and Design; every other name gives MEDIUM and
\* General.  For Access & Login the statement is "Streamline login and
\* authentication process" and the rationale contains the negative_pct.
C14_TemplateByExactThemeName ==
    Recommended =>
        \A bank \in Range(bank_names) :
            \A i \in 1..Min(3, Len(pain_points[bank])) :
                LET rec   == recommendations[bank][i]
                    theme == pain_points[bank][i].theme
                    Is(priority, category) ==
                        rec.priority = priority /\ rec.category = category
                IN  /\ theme = << "Performance & Reliability" >> => Is("HIGH", "Technical")
                    /\ theme = << "Access & Login" >> =>
                           /\ Is("HIGH", "Security & UX")
                           /\ rec.recommendation =
                                  << "Streamline login and authentication process" >>
                           /\ FormatTenths(pain_points[bank][i].negative_pct)
                                  \in Range(rec.rationale)
                    /\ theme = << "Transactions & Payments" >> =>
                           Is("HIGH", "Core Functionality")
                    /\ theme = << "Customer Support" >> => Is("MEDIUM", "Service")
                    /\ theme = << "User Experience" >> => Is("MEDIUM", "Design")
                    /\ theme \notin { << "Performance & Reliability" >>, << "Access & Login" >>,
                                      << "Transactions & Payments" >>, << "Customer Support" >>,
                                      << "User Experience" >> } =>
                           Is("MEDIUM", "General")

\* C14 witness: Access & Login with 5 of 12 reviews negative is among a
\* bank's first three pain points and gives the HIGH-priority login
\* recommendation that cites 41.7, while the key
\* "Access & Login|Performance & Reliability", which contains two of the
\* names, gives the generic one.
C14_Witness ==
    /\ Recommended
    /\ \E bank \in Range(bank_names) :
         /\ Len(pain_points[bank]) >= 2
         /\ pain_points[bank][2].theme = << "Access & Login" >>
         /\ pain_points[bank][2].negative_pct = 417
         /\ pain_points[bank][2].review_count = 12
         /\ recommendations[bank][2].priority = "HIGH"
         /\ recommendations[bank][2].rationale =
                << "41.7", "% of reviews mention ", "Access & Login", " issues" >>
         /\ pain_points[bank][1].theme = StatThemeKeys[6]
         /\ recommendations[bank][1].category = "General"

\* Values a pain point's other fields may take.
OtherAvgRatings == { 200, 258, 290 }

OtherReviewCounts == { 10, 12, 40 }

OtherEvidence == { << >>, << 1 >>, << 1, 2 >> }

OtherNegativePcts == { 300, 417, 900 }

\* The two recommendations agree in every field but the rationale.
SameTemplate(rec1, rec2) ==
    /\ rec1.priority = rec2.priority
    /\ rec1.category = rec2.category
    /\ rec1.recommendation = rec2.recommendation
    /\ rec1.actions = rec2.actions

\* C15 as stated: the recommendation of a pain point is the same in every
\* field for any pain point of the same theme and negative_pct, whatever its
\* avg_rating, review_count and evidence; and priority, category, statement
\* and actions are the same whatever the negative_pct.
C15_DependsOnThemeAndPctOnly ==
    Recommended =>
        \A bank \in Range(bank_names) :
            \A i \in 1..Min(3, Len(pain_points[bank])) :
                LET pain == pain_points[bank][i]
                    rec  == recommendations[bank][i]
                IN  /\ \A a \in OtherAvgRatings, c \in OtherReviewCounts, e \in OtherEvidence :
                           PainPointRecommendation(
                               [pain EXCEPT !.avg_rating = a, !.review_count = c,
                                            !.evidence = e]) = rec
                    /\ \A n \in OtherNegativePcts :
                           SameTemplate(
                               PainPointRecommendation([pain EXCEPT !.negative_pct = n]), rec)

\* C15 as amended: the same, except that for the theme Performance &
\* Reliability the rationale also cites avg_rating, so that there the
\* recommendations are the same in every field only for pain points that
\* agree in avg_rating too, and agree in every field but the rationale
\* otherwise.
C15_DependsOnThemePctAndPerformanceRating ==
    Recommended =>
        \A bank \in Range(bank_names) :
            \A i \in 1..Min(3, Len(pain_points[bank])) :
                LET pain == pain_points[bank][i]
                    rec  == recommendations[bank][i]
                IN  /\ \A a \in OtherAvgRatings, c \in OtherReviewCounts, e \in OtherEvidence :
                           LET other == PainPointRecommendation(
                                            [pain EXCEPT !.avg_rating = a, !.review_count = c,
                                                         !.evidence = e])
                           IN  /\ SameTemplate(other, rec)
                               /\ pain.theme # << "Performance & Reliability" >> => other = rec
                               /\ a = pain.avg_rating => other = rec
                    /\ \A n \in OtherNegativePcts :
                           SameTemplate(
                               PainPointRecommendation([pain EXCEPT !.negative_pct = n]), rec)

\* C15 witness: a bank's recommendations are derived from a Performance &
\* Reliability pain point rated 2.0, whose rationale cites the rating, and
\* from an Access & Login pain point, whose rationale does not.
C15_Witness ==
    /\ Recommended
    /\ \E bank \in Range(bank_names) :
         /\ Len(pain_points[bank]) >= 2
         /\ pain_points[bank][1].theme = << "Performance & Reliability" >>
         /\ pain_points[bank][1].avg_rating = 200
         /\ recommendations[bank][1].rationale =
                << "90.0", "% of reviews mention ", "Performance & Reliability", " issues",
                   " with avg rating ", "2.0" >>
         /\ pain_points[bank][2].theme = << "Access & Login" >>
         /\ pain_points[bank][2].avg_rating = 258
         /\ "2.58" \notin Range(recommendations[bank][2].rationale)

\* The themes of the pain points a bank's first recommendations are for.
StepOneThemes(bank) ==
    { pain_points[bank][i].theme : i \in 1..Min(3, Len(pain_points[bank])) }

\* The list of a bank before it is cut to five entries.
BeforeCut(bank) == BankRecs(bank, bank_names, drivers, pain_points, comparison)

\* C16: competitive entries naming bank B are produced for bank A only if
\* B's avg_rating is greater than A's by more than 0.30, so that a gap of
\* exactly 0.30 gives none; and when the gap is greater than 0.30, for every
\* theme T of B's first two drivers that is not a theme of A's
\* pain-point-derived entries, A's list before the cut has exactly one
\* MEDIUM-priority competitive entry naming B and T, whose rationale cites
\* B's positive_pct for T.
C16_CompetitiveIffGapOverThreeTenths ==
    Recommended =>
        \A A, B \in Range(bank_names) :
            A # B =>
                LET gap == comparison[B].avg_rating > comparison[A].avg_rating + 30
                IN  /\ (\E r \in 1..Len(BeforeCut(A)) : NamesPeer(BeforeCut(A)[r], B)) => gap
                    /\ (\E r \in 1..Len(recommendations[A]) :
                            NamesPeer(recommendations[A][r], B)) => gap
                    /\ gap =>
                         \A d \in 1..Min(2, Len(drivers[B])) :
                             LET T    == drivers[B][d].theme
                                 hits == { r \in 1..Len(BeforeCut(A)) :
                                             NamesPeerAndTheme(BeforeCut(A)[r], B, T) }
                             IN  T \notin StepOneThemes(A) =>
                                     /\ Cardinality(hits) = 1
                                     /\ \A r \in hits :
                                            /\ BeforeCut(A)[r].priority = "MEDIUM"
                                            /\ FormatTenths(drivers[B][d].positive_pct)
                                                   \in Range(BeforeCut(A)[r].rationale)

\* C17: the themes of a bank's competitive entries are none of the themes of
\* its pain-point-derived entries: no competitive entry is appended for a
\* peer's driver theme the bank already has a recommendation for.
C17_CompetitiveThemesNotStepOneThemes ==
    Recommended =>
        \A bank \in Range(bank_names) :
            \A r \in 1..Len(recommendations[bank]) :
                IsCompetitive(recommendations[bank][r]) =>
                    CompetitiveTheme(recommendations[bank][r]) \notin StepOneThemes(bank)

\* C18: a bank whose avg_rating is at least that of every other bank gets no
\* competitive recommendation, and no bank gets a competitive recommendation
\* that names the bank itself.
C18_TopPerformerNoCompetitive ==
    Recommended =>
        \A bank \in Range(bank_names) :
            LET recs == recommendations[bank]
                top  == \A other \in Range(bank_names) :
                            comparison[bank].avg_rating >= comparison[other].avg_rating
            IN  /\ top => \A r \in 1..Len(recs) : ~IsCompetitive(recs[r])
                /\ \A r \in 1..Len(recs) : ~NamesPeer(recs[r], bank)

\* C18 witness: the one bank rated highest has drivers of its own and pain
\* points, is named in a competitive recommendation of another bank that
\* has drivers too, and has only pain-point-derived recommendations.
C18_Witness ==
    /\ Recommended
    /\ \E bank, other \in Range(bank_names) :
         /\ \A b \in Range(bank_names) \ { bank } :
                comparison[bank].avg_rating > comparison[b].avg_rating
         /\ drivers[bank] # << >>
         /\ pain_points[bank] # << >>
         /\ drivers[other] # << >>
         /\ \E r \in 1..Len(recommendations[other]) :
                NamesPeer(recommendations[other][r], bank)
         /\ recommendations[bank] # << >>
         /\ \A r \in 1..Len(recommendations[bank]) : ~IsCompetitive(recommendations[bank][r])

\* The bank a competitive entry names.
PeerOf(rec) == rec.recommendation[2]

\* The position of a bank in the order of the comparison.
PositionOf(bank) == CHOOSE k \in 1..Len(bank_names) : bank_names[k] = bank

\* The ranks a theme has among a bank's drivers.
DriverRanks(bank, theme) == { d \in 1..Len(drivers[bank]) : drivers[bank][d].theme = theme }

\* The competitive entries of the list are ordered by the position of the
\* peer and, for one peer, by the rank of the driver, and each names one of
\* the first two drivers of its peer.
InPeerThenDriverOrder(recs) ==
    /\ \A i, j \in 1..Len(recs) :
           (i < j /\ IsCompetitive(recs[i]) /\ IsCompetitive(recs[j])) =>
               \/ PositionOf(PeerOf(recs[i])) < PositionOf(PeerOf(recs[j]))
               \/ /\ PeerOf(recs[i]) = PeerOf(recs[j])
                  /\ \A di \in DriverRanks(PeerOf(recs[i]), CompetitiveTheme(recs[i])),
                        dj \in DriverRanks(PeerOf(recs[j]), CompetitiveTheme(recs[j])) :
                         di < dj
    /\ \A i \in 1..Len(recs) :
           IsCompetitive(recs[i]) =>
               /\ DriverRanks(PeerOf(recs[i]), CompetitiveTheme(recs[i])) # { }
               /\ DriverRanks(PeerOf(recs[i]), CompetitiveTheme(recs[i])) \subseteq { 1, 2 }

\* C19: in a bank's recommendation list, before and after the cut, the
\* competitive entries follow the order of the peers in the comparison and,
\* for one peer, the rank of its drivers; only a peer's first two drivers
\* are used; the entries are not reordered by gap or by positive_pct.
C19_CompetitiveInPeerThenDriverOrder ==
    Recommended =>
        \A bank \in Range(bank_names) :
            /\ InPeerThenDriverOrder(recommendations[bank])
            /\ InPeerThenDriverOrder(BeforeCut(bank))

\* C19 witness: a bank has entries for two peers; the peer first in the
\* comparison has the smaller gap, three drivers and 60.0 % positive, the
\* second the greater gap and 90.0 %; the entries are the first peer's first
\* and second driver, then the second peer's.
C19_Witness ==
    /\ Recommended
    /\ LET bank   == bank_names[1]
           first  == bank_names[2]
           second == bank_names[3]
           recs   == recommendations[bank]
       IN  /\ comparison[first].avg_rating < comparison[second].avg_rating
           /\ Len(drivers[first]) = 3
           /\ Len(drivers[second]) >= 1
           /\ drivers[first][1].positive_pct = 600
           /\ drivers[second][1].positive_pct = 900
           /\ Len(recs) = 3
           /\ NamesPeerAndTheme(recs[1], first, drivers[first][1].theme)
           /\ NamesPeerAndTheme(recs[2], first, drivers[first][2].theme)
           /\ NamesPeerAndTheme(recs[3], second, drivers[second][1].theme)

(***************************************************************************)
(* Properties of the bank comparison, checked under SpecCompare.          *)
(***************************************************************************)
Compared == pc = "compared"

\* The labels the tagger gave the reviews of a bank.
LabelsOfBank(bank) ==
    UNION { LabelsOf(BankFrame(df, bank)[i]) : i \in 1..Len(BankFrame(df, bank)) }

\* C20: a bank's top_themes has at most 5 entries, the count of each theme
\* in it is the number of the bank's reviews the tagger labelled with the
\* theme, a review with several labels counting once for each, and no label
\* left out has a greater count than a theme in it.
C20_TopThemesCountLabelledReviews ==
    Compared =>
        \A bank \in DOMAIN comparison :
            LET top == comparison[bank].top_themes
            IN  /\ Len(top) <= 5
                /\ \A i \in 1..Len(top) :
                       top[i].count = Len(RowsTagged(bank, top[i].theme))
                /\ \A label \in LabelsOfBank(bank) \ ThemesIn(top) :
                       \A i \in 1..Len(top) :
                           Len(RowsTagged(bank, label)) <= top[i].count

(***************************************************************************)
(* Properties of a whole run of generate_insights.main, checked under      *)
(* SpecMain.                                                               *)
(***************************************************************************)
SynthesisStarted == pc \in { "compared", "recommended", "json_saved", "done" }

SynthesisDone == pc \in { "recommended", "json_saved", "done" }

HasCompetitive(bank_recs) ==
    \E r \in 1..Len(bank_recs) : IsCompetitive(bank_recs[r])

\* C21: from the moment generate_recommendations is entered, the aggregation,
\* the driver and pain-point lists and the comparison record exist for every
\* bank of the input and hold the values their functions return for the
\* whole input; the recommendations are computed from exactly these values.
C21_SynthesisReadsFinalResults ==
    /\ SynthesisStarted =>
         /\ theme_sentiment \in analyze_theme_sentiment(df)
         /\ DOMAIN drivers = Range(bank_names)
         /\ DOMAIN pain_points = Range(bank_names)
         /\ DOMAIN comparison = Range(bank_names)
         /\ drivers = identify_drivers(bank_names, theme_sentiment)
         /\ pain_points = identify_pain_points(bank_names, theme_sentiment)
         /\ comparison \in compare_banks(df)
    /\ SynthesisDone =>
         recommendations =
             generate_recommendations(bank_names, drivers, pain_points, comparison)

C21_Witness ==
    /\ pc = "recommended"
    /\ \E bank, other \in Range(bank_names) :
         /\ bank # other
         /\ drivers[other] # << >>
         /\ \E r \in 1..Len(recommendations[bank]) :
                NamesPeer(recommendations[bank][r], other)

(***************************************************************************)
(* Properties of the per-bank steps run in any order, checked under        *)
(* SpecInterleave.                                                         *)
(***************************************************************************)
AllBanksProcessed ==
    /\ DOMAIN drivers = Range(bank_names)
    /\ DOMAIN pain_points = Range(bank_names)
    /\ DOMAIN comparison = Range(bank_names)

\* C22: whatever the order in which the banks are processed and however the
\* comparison steps are interleaved with the classification steps, every
\* driver and pain-point entry written is the one the sequential function
\* returns for that bank, and once every bank is processed the three
\* dictionaries are results of the sequential functions on inputs that are
\* still what they were.
C22_AnyOrderSameResults ==
    /\ \A b \in DOMAIN drivers :
           drivers[b] = identify_drivers(bank_names, theme_sentiment)[b]
    /\ \A b \in DOMAIN pain_points :
           pain_points[b] = identify_pain_points(bank_names, theme_sentiment)[b]
    /\ bank_names = BankNamesOf(df)
    /\ AllBanksProcessed =>
           /\ drivers = identify_drivers(bank_names, theme_sentiment)
           /\ pain_points = identify_pain_points(bank_names, theme_sentiment)
           /\ comparison \in compare_banks(df)
           /\ theme_sentiment \in analyze_theme_sentiment(df)

C22_Witness ==
    /\ AllBanksProcessed
    /\ Len(bank_names) = 2
    /\ drivers[bank_names[1]] # << >>
    /\ pain_points[bank_names[2]] # << >>
    /\ comparison[bank_names[1]].avg_rating > comparison[bank_names[2]].avg_rating

NoRecords(file) ==
    \/ ~file.exists
    \/ ~file.columns
    \/ file.rows = << >>

\* C23: when the file of tagged reviews is absent or holds no review, main
\* fails and writes neither insights_summary.json nor insights_report.txt.
C23_NoDocumentWithoutRecords ==
    NoRecords(theme_data) => pc # "done" /\ DOMAIN outputs = {}

(***************************************************************************)
(* Properties of the aggregation of frames with missing cells, checked     *)
(* under SpecMalformed.                                                    *)
(***************************************************************************)
WellFormed(row) == row.rating # NaN /\ row.sentiment_label # NoLabel

\* C24: a review whose rating or sentiment label is missing contributes to
\* no statistic: the aggregation is the one of the frame without it.
C24_MalformedRowsExcluded ==
    Analyzed => theme_sentiment \in analyze_theme_sentiment(SelectSeq(df, WellFormed))

InputBanks == Range(BankNamesOf(theme_data.rows))

JsonSaved == pc \in { "json_saved", "done" }

\* C25: every bank of the input has a key in each of the four sections of the
\* document, in memory and as written; a bank none of whose themes qualifies
\* has the empty list, not a missing key.
C25_EveryBankInEverySection ==
    /\ SynthesisDone =>
         /\ DOMAIN drivers = InputBanks
         /\ DOMAIN pain_points = InputBanks
         /\ DOMAIN comparison = InputBanks
         /\ DOMAIN recommendations = InputBanks
         /\ \A b \in InputBanks :
              /\ drivers[b] = << >> <=>
                   SelectSeq(theme_sentiment[b], IsDriver) = << >>
              /\ pain_points[b] = << >> <=>
                   SelectSeq(theme_sentiment[b], IsPainPoint) = << >>
    /\ JsonSaved =>
         /\ DOMAIN outputs[JSON_PATH].drivers = InputBanks
         /\ DOMAIN outputs[JSON_PATH].pain_points = InputBanks
         /\ DOMAIN outputs[JSON_PATH].comparison = InputBanks
         /\ DOMAIN outputs[JSON_PATH].recommendations = InputBanks

C25_Witness ==
    /\ JsonSaved
    /\ \E b, o \in InputBanks :
         /\ outputs[JSON_PATH].drivers[b] = << >>
         /\ outputs[JSON_PATH].pain_points[b] = << >>
         /\ outputs[JSON_PATH].recommendations[b] = << >>
         /\ outputs[JSON_PATH].drivers[o] # << >>

(***************************************************************************)
(* The written document read back.                                         *)
(***************************************************************************)
\* A Python mapping as its set of items, each key with its type.
IntKeyed(mapping) ==
    { [key |-> [int |-> k], value |-> mapping[k]] : k \in DOMAIN mapping }

\* json.load of an object: the member names become the keys, as strings.
JsonLoadObject(object) ==
    { [key |-> [str |-> m.name], value |-> m.value] : m \in object }

\* The rating_distribution of each bank in the document read back from the
\* written one, and in the document main built.
LoadedDistributions(text) ==
    [b \in DOMAIN text.comparison |->
        JsonLoadObject(text.comparison[b].rating_distribution)]

BuiltDistributions ==
    [b \in DOMAIN comparison |-> IntKeyed(comparison[b].rating_distribution)]

\* The document without the rating distributions.
OtherFields(doc) ==
    [ doc EXCEPT !.comparison =
        [b \in DOMAIN doc.comparison |->
            [ doc.comparison[b] EXCEPT !.rating_distribution = << >> ]] ]

\* C26: the document read back from insights_summary.json equals the document
\* main built, in all four sections and in the keys and values of every
\* mapping, the rating distributions with their integer keys included.
C26_JsonRoundTrip ==
    JsonSaved =>
        /\ OtherFields(outputs[JSON_PATH]) =
               OtherFields(Insights(drivers, pain_points, comparison, recommendations))
        /\ LoadedDistributions(outputs[JSON_PATH]) = BuiltDistributions

(***************************************************************************)
(* Properties of the evidence of drivers and pain points, checked under    *)
(* SpecMain.                                                               *)
(***************************************************************************)
Classified == pc \in { "pain_points", "compared", "recommended", "json_saved", "done" }

\* The texts of the first at most two reviews of the bank that the tagger
\* labelled with the theme and the sentiment analysis with `label`.
FirstTwoTagged(bank, theme, label) ==
    Head2(Reviews(WithLabel(RowsTagged(bank, theme), label)))

\* C27: the evidence of a driver is the first at most two positive reviews
\* of its bank tagged with its theme, in input order, and the evidence of a
\* pain point the first at most two negative ones.
C27_EvidenceFromTaggedReviews ==
    Classified =>
        \A bank \in Range(bank_names) :
            /\ \A i \in 1..Len(drivers[bank]) :
                   drivers[bank][i].evidence =
                       FirstTwoTagged(bank, drivers[bank][i].theme, "positive")
            /\ \A i \in 1..Len(pain_points[bank]) :
                   pain_points[bank][i].evidence =
                       FirstTwoTagged(bank, pain_points[bank][i].theme, "negative")

(***************************************************************************)
(* Properties of run_pipeline.main, checked under SpecPipeline.            *)
(***************************************************************************)
StepIndex(step) == CHOOSE k \in 1..Len(STEPS) : STEPS[k] = step

NotSkipped == { k \in 1..Len(STEPS) : ~pipeline.skip[k] }

Reported(result) ==
    { StepIndex(pipeline.executed[i]) :
        i \in { n \in 1..Len(pipeline.executed) : pipeline.results[n] = result } }

\* C28: a step that reports failure is the last one run and main returns 1
\* at once; when main has returned, the exit code is 0 exactly if every
\* step that is not skipped has run and reported success.
C28_FailFastExitCode ==
    /\ Reported("failure") # {} =>
          /\ pc = "returned"
          /\ pipeline.returned
          /\ pipeline.exit_code = 1
          /\ pipeline.results[Len(pipeline.results)] = "failure"
          /\ Cardinality(Reported("failure")) = 1
    /\ pipeline.returned =>
          /\ pipeline.exit_code \in { 0, 1 }
          /\ pipeline.exit_code = 0 <=> Reported("success") = NotSkipped

C28_Witness ==
    /\ pipeline.returned
    /\ pipeline.exit_code = 1
    /\ pipeline.executed = << "scraping", "sentiment_analysis" >>
    /\ ~pipeline.skip[4]

\* The steps run so far are in the order of STEPS, none twice, none skipped.
RunInOrder ==
    /\ \A i, j \in 1..Len(pipeline.executed) :
           i < j => StepIndex(pipeline.executed[i]) < StepIndex(pipeline.executed[j])
    /\ \A i \in 1..Len(pipeline.executed) :
           ~pipeline.skip[StepIndex(pipeline.executed[i])]

\* Passing a skipped step runs nothing, logs one line, a warning when the
\* step's file is missing, and goes on to the next step.
SkipGoesOn ==
    \A k \in 1..Len(STEPS) :
        pc = StepPc(k) /\ pipeline.skip[k] =>
            /\ pc' = StepPc(k + 1)
            /\ pipeline' =
                  [ pipeline EXCEPT
                      !.log = Append(@,
                          [level |-> IF STEP_OUTPUT[k] \in pipeline.files
                                     THEN "info" ELSE "warning",
                           step  |-> STEPS[k]]) ]

\* C29: the steps that run do so in the order scraping, preprocessing,
\* sentiment analysis, theme analysis, each at most once and never a skipped
\* one; skipping a step whose file is missing logs a warning and the
\* pipeline goes on with the next step.
C29_FixedOrderSkipsGoOn == []RunInOrder /\ [][SkipGoesOn]_vars

C29_Witness ==
    /\ pipeline.skip[3]
    /\ STEP_OUTPUT[3] \notin pipeline.files
    /\ \E i \in 1..Len(pipeline.log) :
           pipeline.log[i] = [level |-> "warning", step |-> "sentiment_analysis"]
    /\ pipeline.executed = << "scraping", "preprocessing", "theme_analysis" >>

(***************************************************************************)
(* Properties of fetch_reviews_for_bank, checked under SpecFetch.          *)
(***************************************************************************)
Returned == pc = "returned"

\* While the loop goes on after a call, that call delivered a non-empty
\* batch and a token; at most max_attempts calls are made; what is returned
\* is every review delivered, also when a later call raised.
FetchInvariant ==
    /\ scraper.calls <= MAX_ATTEMPTS
    /\ pc = "loop" /\ scraper.calls > 0 =>
          scraper.last = "batch" /\ scraper.continuation_token # NoToken
    /\ Returned =>
          /\ scraper.result = Batch(0, scraper.delivered)
          /\ \/ Len(scraper.result) >= scraper.min_reviews
             \/ scraper.last \in { "empty", "raised" }
             \/ scraper.continuation_token = NoToken
             \/ scraper.calls = MAX_ATTEMPTS

\* A call is made only while fewer than min_reviews reviews are collected.
CallsOnlyWhenShort ==
    scraper'.calls > scraper.calls =>
        pc = "loop" /\ Len(scraper.all_reviews) < scraper.min_reviews

\* C30: fetch_reviews_for_bank returns whatever the API does, after at most
\* 50 calls; it makes no call once min_reviews reviews are collected, a
\* batch was empty, the token was None or a call raised; it returns every
\* review it was given, which may be fewer than min_reviews.
C30_FetchTerminates ==
    /\ <>Returned
    /\ []FetchInvariant
    /\ [][CallsOnlyWhenShort]_vars

\* The 50th call was made and fewer than min_reviews reviews are returned.
C30_Witness ==
    /\ Returned
    /\ scraper.calls = MAX_ATTEMPTS
    /\ scraper.last = "batch"
    /\ scraper.continuation_token # NoToken
    /\ Len(scraper.result) < scraper.min_reviews
    /\ Len(scraper.result) > 0

====
